---- MODULE Spec2Model ----
(***************************************************************************)
(* Music Forge Pro (musicforge_pro.py): the batch dispatcher of the        *)
(* desktop application (MusicForgeApp), the per-job pipeline it drives     *)
(* (AudioProcessor.process_file) and the two engine runners                *)
(* (ffmpeg_runner_improved.run_ffmpeg and                                  *)
(* AudioProcessor._process_file_original).                                 *)
(*                                                                         *)
(* The package modules musicforge_pro/gui.py and musicforge_pro/core.py    *)
(* hold the same dispatcher, job and runner code.  The class in gui.py     *)
(* calls _sync_settings_from_ui without defining it, so the model follows  *)
(* the single-file application, where Start goes on to dispatch.           *)
(*                                                                         *)
(* Threads are modelled by their positions: one dispatcher thread per      *)
(* press of Start, one worker thread (_run_one) per file a dispatcher      *)
(* hands out.  The engine (ffmpeg) is the environment: it emits progress   *)
(* lines and exits with a return code.                                     *)
(***************************************************************************)
EXTENDS Integers, Sequences, FiniteSets, TLC

\* ---------------------------------------------------------------- bounds
\* Files queued in a run where Start dispatches once.
MaxFiles == 3
\* Presses of Start that dispatch, and files queued, where Start is pressed
\* again.
MaxBatches == 2
MaxRestartFiles == 2
\* Largest value of the "workers" spinbox.
MaxParallelism == 2

\* Input files of a command-line run, and numbered copies "_001".."_00N" that
\* exist in the output directory before it.
MaxCliFiles == 2
MaxCounter == 2

\* Longest duration of an input, in seconds.
MaxDuration == 400

\* Progress lines read in one engine run, and the largest out_time the engine
\* reports, in seconds.
MaxLines == 3
MaxOutTime == 5

\* Lines a pipe holds before a write to it blocks, and writes the engine
\* makes in one run (more than one pipe holds).
PipeCapacity == 2
MaxWrites == 4

\* Longest captured stderr text, in tokens (words, spaces, newlines).
MaxText == 4

Files == 1..MaxFiles
Batches == 1..MaxBatches

\* ------------------------------------------------------------ input sets
\* settings.parallelism after _sync_settings_from_ui: max(1, int(...)).
ParallelismChoices == (1..MaxParallelism) \cup {8}

\* os.cpu_count() of the host; 0 stands for None.
HostCpuCounts == {0, 2, 16}

\* The output directory chosen, relative to the source directory "a":
\* "a/." is the same directory spelt differently, "ln" a symbolic link to it,
\* "hl" a directory holding hard links to the source files, "out" another
\* directory.
OutDirChoices == {"a/.", "ln", "hl", "out"}

SettingsChoices ==
    [parallelism : ParallelismChoices,
     normalize_loudness : BOOLEAN,
     normalize_mode : {"one-pass", "two-pass"},
     overwrite_existing : BOOLEAN]

\* ProcessingSettings() defaults.
DefaultSettings ==
    [parallelism |-> 1, normalize_loudness |-> FALSE,
     normalize_mode |-> "one-pass", overwrite_existing |-> FALSE]

\* ------------------------------------------------------- ProcessingStatus
QUEUED == "Queued"
PROCESSING == "Processing"
COMPLETED == "Completed"
SKIPPED == "Skipped"
FAILED == "Failed"
ProcessingStatus == {QUEUED, PROCESSING, COMPLETED, SKIPPED, FAILED}
Terminal == {COMPLETED, SKIPPED, FAILED}

None == "None"
MsgExists == "File exists, skipping"
MsgSelfOverwrite == "Would overwrite source; refusing to process"
MsgCancelled == "Cancelled"
\* the last line of the engine's stderr, or "FFmpeg exited with code N"
MsgEngine == "engine error"

\* AudioFile(path=..., name=...): a new entry of the queue.
AudioFile == [status |-> QUEUED, error_message |-> None]

VARIABLES
    audio_files,   \* MusicForgeApp.audio_files: sequence of AudioFile records
    settings,      \* MusicForgeApp.settings
    stop_event,    \* MusicForgeApp._stop_event
    nbatches,      \* number of dispatcher threads started (len of _threads)
    dpc,           \* dispatcher thread position, per batch
    work_q,        \* dispatcher's local work_q, per batch
    active,        \* dispatcher's local list of worker threads, per batch
    max_workers,   \* dispatcher's local max_workers, per batch
    launched,      \* iterations done of "for _ in range(max_workers)"
    worker,        \* worker thread position, per batch and file
    fs,            \* stems whose file exists in the directory "out"
    ui,            \* the Tk variables of the settings panel
    host,          \* facts fixed at import: cpu count, runner, engine found
    cli,           \* cli_main: the loop over the input files
    run            \* one call of AudioProcessor.process_file

vars == <<audio_files, settings, stop_event, nbatches, dpc, work_q, active,
          max_workers, launched, worker, fs, ui, host, cli, run>>

\* ------------------------------------------------------------------ paths
\* A path is a directory and a stem; the suffix of the output equals the
\* suffix of the source (the output format is the source's format).
SrcPath(f) == [dir |-> "a", stem |-> f]

\* Path.resolve(): removes "." components and follows symbolic links.  A hard
\* link is a directory entry of its own and resolves to itself.
Resolve(p) == [p EXCEPT !.dir = IF p.dir \in {"a/.", "ln"} THEN "a" ELSE p.dir]

\* The file (inode) a path denotes: os.path.samefile compares these.
Inode(p) == LET r == Resolve(p) IN [r EXCEPT !.dir = IF r.dir = "hl" THEN "a" ELSE r.dir]

\* Path.exists(): the sources exist (they were checked when enqueued); a path
\* in "out" exists once a run has written it.
Exists(p) == IF Inode(p).dir = "a" THEN TRUE ELSE p.stem \in fs

\* MusicForgeApp._output_path_for with the template "{stem}.{ext}".
OutputPathFor(f) == [dir |-> host.outdir, stem |-> f]

\* ----------------------------------------------------------- dispatcher
\* os.cpu_count() or 4
CpuCount == IF host.cpu_count = 0 THEN 4 ELSE host.cpu_count

Min(a, b) == IF a < b THEN a ELSE b
Max(a, b) == IF a > b THEN a ELSE b

TwoPass(s) == s.normalize_loudness /\ s.normalize_mode = "two-pass"

\* A cap that halves the configured parallelism.
WorkerCapHalved(s) ==
    IF TwoPass(s) THEN Max(1, s.parallelism \div 2) ELSE s.parallelism

\* max_workers as _dispatcher computes it.
WorkerCap(s) ==
    IF TwoPass(s)
    THEN Min(s.parallelism, Max(1, CpuCount \div 2))
    ELSE s.parallelism

\* A launch loop that runs once too often.
LaunchMoreOffByOne(d) == launched[d] <= max_workers[d]

\* "for _ in range(max_workers)": another iteration is due.
LaunchMore(d) == launched[d] < max_workers[d]

\* A loop that never refills.
RefillNever(d) == FALSE

\* The guard of the loop's refill: "not work_q.empty() and not stop".
Refill(d) == work_q[d] # <<>> /\ ~stop_event

Alive(d, f) == worker[d][f] \notin {"none", "done"}

\* A liveness test with its sense inverted.
ThreadDeadInverted(d, f) == worker[d][f] \notin {"none", "done"}

\* "not t.is_alive()" for the worker thread of file f.
ThreadDead(d, f) == worker[d][f] = "done"

\* A start_job that takes the entry queued last.
StartJobLast(d) ==
    LET q == work_q[d]
        f == q[Len(q)]
    IN  /\ work_q' = [work_q EXCEPT ![d] = SubSeq(q, 1, Len(q) - 1)]
        /\ audio_files' = [audio_files EXCEPT ![f].status = PROCESSING]
        /\ worker' = [worker EXCEPT ![d][f] = "guards"]
        /\ active' = [active EXCEPT ![d] = @ \cup {f}]

\* start_job(): dequeue, mark Processing, start the worker thread.
StartJob(d) ==
    LET f == Head(work_q[d]) IN
    /\ work_q' = [work_q EXCEPT ![d] = Tail(@)]
    /\ audio_files' = [audio_files EXCEPT ![f].status = PROCESSING]
    /\ worker' = [worker EXCEPT ![d][f] = "guards"]
    /\ active' = [active EXCEPT ![d] = @ \cup {f}]

\* The command-line loop and the single pipeline run are not in use while
\* the desktop application is modelled.
CliOff == [pc |-> "off"]
RunOff == [pc |-> "off"]

Init ==
    /\ audio_files = <<>>
    /\ settings = DefaultSettings
    /\ stop_event = FALSE
    /\ nbatches = 0
    /\ dpc = [d \in Batches |-> "none"]
    /\ work_q = [d \in Batches |-> <<>>]
    /\ active = [d \in Batches |-> {}]
    /\ max_workers = [d \in Batches |-> 0]
    /\ launched = [d \in Batches |-> 0]
    /\ worker = [d \in Batches |-> [f \in Files |-> "none"]]
    /\ fs = {}
    /\ ui \in SettingsChoices
    /\ host \in [cpu_count : HostCpuCounts,
                 ffmpeg_runner_available : BOOLEAN,
                 ffmpeg_available : BOOLEAN,
                 outdir : OutDirChoices]
    /\ cli = CliOff
    /\ run = RunOff

\* _sync_settings_from_ui: the settings take the values of the Tk variables.
SyncSettingsFromUi == ui

\* _enqueue_files, one path.
EnqueueFile(limit) ==
    /\ Len(audio_files) < limit
    /\ audio_files' = Append(audio_files, AudioFile)
    /\ UNCHANGED <<settings, stop_event, nbatches, dpc, work_q, active,
                   max_workers, launched, worker, fs, ui, host, cli, run>>

\* A Start that does not look for the engine.
StartProcessingUnchecked(limit) ==
    /\ stop_event' = FALSE
    /\ settings' = SyncSettingsFromUi
    /\ IF audio_files = <<>>
       THEN UNCHANGED <<audio_files, nbatches, dpc>>
       ELSE /\ nbatches < limit
            /\ audio_files' = [i \in 1..Len(audio_files) |-> AudioFile]
            /\ nbatches' = nbatches + 1
            /\ dpc' = [dpc EXCEPT ![nbatches + 1] = "init"]
    /\ UNCHANGED <<work_q, active, max_workers, launched, worker, fs, ui, host, cli, run>>

\* _start_processing; at most `limit` presses get as far as the dispatcher.
StartProcessing(limit) ==
    /\ stop_event' = FALSE
    /\ settings' = SyncSettingsFromUi
    /\ IF ~host.ffmpeg_available \/ audio_files = <<>>
       THEN UNCHANGED <<audio_files, nbatches, dpc>>
       ELSE /\ nbatches < limit
            /\ audio_files' = [i \in 1..Len(audio_files) |-> AudioFile]
            /\ nbatches' = nbatches + 1
            /\ dpc' = [dpc EXCEPT ![nbatches + 1] = "init"]
    /\ UNCHANGED <<work_q, active, max_workers, launched, worker, fs, ui, host, cli, run>>

\* _stop_processing.
StopProcessing ==
    /\ stop_event' = TRUE
    /\ UNCHANGED <<audio_files, settings, nbatches, dpc, work_q, active,
                   max_workers, launched, worker, fs, ui, host, cli, run>>

\* _dispatcher, up to the computation of max_workers.
DispatcherBegin(d) ==
    /\ dpc[d] = "init"
    /\ work_q' = [work_q EXCEPT ![d] = [i \in 1..Len(audio_files) |-> i]]
    /\ max_workers' = [max_workers EXCEPT ![d] = WorkerCap(settings)]
    /\ dpc' = [dpc EXCEPT ![d] = "launch"]
    /\ UNCHANGED <<audio_files, settings, stop_event, nbatches, active,
                   launched, worker, fs, ui, host, cli, run>>

\* _dispatcher: one iteration of "for _ in range(max_workers): start_job()".
\* start_job returns at once on an empty queue, so the remaining iterations
\* do nothing and the thread goes on to the loop.
DispatcherLaunch(d) ==
    /\ dpc[d] = "launch"
    /\ IF LaunchMore(d) /\ work_q[d] # <<>>
       THEN /\ StartJob(d)
            /\ launched' = [launched EXCEPT ![d] = @ + 1]
            /\ UNCHANGED dpc
       ELSE /\ dpc' = [dpc EXCEPT ![d] = "loop"]
            /\ launched' = [launched EXCEPT ![d] = 0]
            /\ UNCHANGED <<audio_files, work_q, active, worker>>
    /\ UNCHANGED <<settings, stop_event, nbatches, max_workers, fs, ui, host, cli, run>>

\* _dispatcher: the loop finds thread f dead, removes it and tests the refill.
DispatcherReap(d, f) ==
    /\ dpc[d] = "loop"
    /\ f \in active[d]
    /\ ThreadDead(d, f)
    /\ active' = [active EXCEPT ![d] = @ \ {f}]
    /\ dpc' = [dpc EXCEPT ![d] = IF Refill(d) THEN "start_job" ELSE "loop"]
    /\ UNCHANGED <<audio_files, settings, stop_event, nbatches, work_q,
                   max_workers, launched, worker, fs, ui, host, cli, run>>

\* _dispatcher: the start_job() call of the refill.
DispatcherStartJob(d) ==
    /\ dpc[d] = "start_job"
    /\ StartJob(d)
    /\ dpc' = [dpc EXCEPT ![d] = "loop"]
    /\ UNCHANGED <<settings, stop_event, nbatches, max_workers, launched,
                   fs, ui, host, cli, run>>

\* A loop that ends only on an empty queue.
DispatcherFinishOnEmptyQueue(d) ==
    /\ dpc[d] = "loop"
    /\ active[d] = {}
    /\ work_q[d] = <<>>
    /\ dpc' = [dpc EXCEPT ![d] = "done"]
    /\ UNCHANGED <<audio_files, settings, stop_event, nbatches, work_q, active,
                   max_workers, launched, worker, fs, ui, host, cli, run>>

\* _dispatcher: "while active" ends; "All processing finished."
DispatcherFinish(d) ==
    /\ dpc[d] = "loop"
    /\ active[d] = {}
    /\ dpc' = [dpc EXCEPT ![d] = "done"]
    /\ UNCHANGED <<audio_files, settings, stop_event, nbatches, work_q, active,
                   max_workers, launched, worker, fs, ui, host, cli, run>>

\* ------------------------------------------------------------- per-job run
\* The pre-flight guards of _run_one, in the order of the code.
GuardOutcome(f) ==
    LET outp == OutputPathFor(f) IN
    IF Exists(outp) /\ ~settings.overwrite_existing THEN "exists"
    ELSE IF Resolve(outp) = Resolve(SrcPath(f)) THEN "samefile"
    ELSE "proceed"

\* Whether the runner in use was handed the stop event: process_file calls
\* run_ffmpeg(cmd, on_progress=..., duration_sec=...) without stop_event, and
\* passes stop_event to _process_file_original.
StopEventPassed == ~host.ffmpeg_runner_available

\* "if stop_event and stop_event.is_set()" at the top of the runner's loop.
StopObserved == StopEventPassed /\ stop_event

\* What process_file returns for the way the run ended: "exit0", "exit1"
\* (any nonzero return code) or "cancel" (the runner took its stop branch).
ProcessFileResult(how) ==
    IF host.ffmpeg_runner_available
    THEN LET rc == IF how = "exit0" THEN 0 ELSE IF how = "exit1" THEN 1 ELSE -1 IN
         [ok |-> rc = 0, err |-> IF rc = 0 THEN None ELSE MsgEngine]
    ELSE IF how = "cancel" THEN [ok |-> FALSE, err |-> MsgCancelled]
    ELSE IF how = "exit0" THEN [ok |-> TRUE, err |-> None]
    ELSE [ok |-> FALSE, err |-> MsgEngine]

\* A recording that treats every unsuccessful run as a failure.
RunOneStatusAllFailed(res) ==
    IF res.ok
    THEN [status |-> COMPLETED, error_message |-> None]
    ELSE [status |-> FAILED, error_message |-> res.err]

\* The status _run_one records for process_file's (ok, err).
RunOneStatus(res) ==
    IF res.ok
    THEN [status |-> COMPLETED, error_message |-> None]
    ELSE [status |-> IF res.err = MsgCancelled THEN SKIPPED ELSE FAILED,
          error_message |-> res.err]

\* The worker thread records its result and ends.
Finish(d, f, rec) ==
    /\ audio_files' = [audio_files EXCEPT ![f] = rec]
    /\ worker' = [worker EXCEPT ![d][f] = "done"]

\* _run_one up to the call of process_file; process_file up to the spawn of
\* the engine, or to the measurement pass in two-pass mode.
RunOneGuards(d, f) ==
    /\ worker[d][f] = "guards"
    /\ LET g == GuardOutcome(f) IN
       IF g = "exists"
       THEN Finish(d, f, [status |-> SKIPPED, error_message |-> MsgExists])
       ELSE IF g = "samefile"
       THEN Finish(d, f, [status |-> FAILED, error_message |-> MsgSelfOverwrite])
       ELSE /\ worker' = [worker EXCEPT ![d][f] =
                             IF TwoPass(settings) THEN "measure" ELSE "check"]
            /\ UNCHANGED audio_files
    /\ UNCHANGED <<settings, stop_event, nbatches, dpc, work_q, active,
                   max_workers, launched, fs, ui, host, cli, run>>

\* measure_loudness returns (subprocess.run with a timeout, which never looks
\* at the stop event); the engine is spawned for the corrective pass.
RunOneMeasure(d, f) ==
    /\ worker[d][f] = "measure"
    /\ worker' = [worker EXCEPT ![d][f] = "check"]
    /\ UNCHANGED <<audio_files, settings, stop_event, nbatches, dpc, work_q,
                   active, max_workers, launched, fs, ui, host, cli, run>>

\* Top of the runner's loop: on an observed stop, signal the engine and
\* return the cancelled result, which _run_one records; otherwise go on to
\* readline().
RunnerCheck(d, f) ==
    /\ worker[d][f] = "check"
    /\ IF StopObserved
       THEN Finish(d, f, RunOneStatus(ProcessFileResult("cancel")))
       ELSE /\ worker' = [worker EXCEPT ![d][f] = "read"]
            /\ UNCHANGED audio_files
    /\ UNCHANGED <<settings, stop_event, nbatches, dpc, work_q, active,
                   max_workers, launched, fs, ui, host, cli, run>>

\* readline() returns a progress line of the running engine.
RunnerLine(d, f) ==
    /\ worker[d][f] = "read"
    /\ worker' = [worker EXCEPT ![d][f] = "check"]
    /\ UNCHANGED <<audio_files, settings, stop_event, nbatches, dpc, work_q,
                   active, max_workers, launched, fs, ui, host, cli, run>>

\* The engine has exited, with return code 0 or nonzero: readline() returns
\* "" and poll() is not None, the loop breaks, the return code is read and
\* _run_one records the result.  A run that exited 0 has written its output.
RunnerEof(d, f) ==
    /\ worker[d][f] = "read"
    /\ \E how \in {"exit0", "exit1"} :
          /\ Finish(d, f, RunOneStatus(ProcessFileResult(how)))
          /\ fs' = IF how = "exit0" /\ host.outdir = "out" THEN fs \cup {f} ELSE fs
    /\ UNCHANGED <<settings, stop_event, nbatches, dpc, work_q, active,
                   max_workers, launched, ui, host, cli, run>>

\* The steps of the dispatcher and worker threads.
Threads ==
    \/ \E d \in Batches : DispatcherBegin(d)
    \/ \E d \in Batches : DispatcherLaunch(d)
    \/ \E d \in Batches, f \in Files : DispatcherReap(d, f)
    \/ \E d \in Batches : DispatcherStartJob(d)
    \/ \E d \in Batches : DispatcherFinish(d)
    \/ \E d \in Batches, f \in Files : RunOneGuards(d, f)
    \/ \E d \in Batches, f \in Files : RunOneMeasure(d, f)
    \/ \E d \in Batches, f \in Files : RunnerCheck(d, f)
    \/ \E d \in Batches, f \in Files : RunnerLine(d, f)
    \/ \E d \in Batches, f \in Files : RunnerEof(d, f)

\* One batch run: Start dispatches once.
Next ==
    \/ EnqueueFile(MaxFiles)
    \/ StartProcessing(1)
    \/ StopProcessing
    \/ Threads

Spec == Init /\ [][Next]_vars

\* Start may be pressed again at any time.  The host has the engine installed,
\* reports no CPU count and writes to a directory other than the sources';
\* the workers spinbox holds a value within its range.
InitRestart ==
    /\ Init
    /\ host.ffmpeg_available
    /\ host.cpu_count = 0
    /\ host.outdir = "out"
    /\ ui.parallelism <= MaxParallelism

NextRestart ==
    \/ EnqueueFile(MaxRestartFiles)
    \/ StartProcessing(MaxBatches)
    \/ StopProcessing
    \/ Threads

SpecRestart == InitRestart /\ [][NextRestart]_vars

\* ------------------------------------------------------------ command line
\* cli_main, the loop over the input files.  Input i has the stem i; a name in
\* the output directory is a stem and a counter, 0 for "{stem}.{ext}" and n
\* for "{stem}_00n.{ext}".
guiVars == <<audio_files, settings, stop_event, nbatches, dpc, work_q, active,
             max_workers, launched, worker, fs, ui, host>>

CliName(stem, counter) == [stem |-> stem, counter |-> counter]

\* "while dst.exists(): ... counter += 1", counter starting at 1.
RECURSIVE CliFreeCounter(_, _, _)
CliFreeCounter(existing, stem, counter) ==
    IF CliName(stem, counter) \in existing
    THEN CliFreeCounter(existing, stem, counter + 1)
    ELSE counter

\* A renaming that always takes the suffix _001.
CliDestinationFirstSuffix(c) ==
    LET dst == CliName(c.idx, 0) IN
    IF dst \in c.existing /\ ~c.overwrite_existing
    THEN CliName(c.idx, 1)
    ELSE dst

\* dst as cli_main settles it before the pipeline is called.
CliDestination(c) ==
    LET dst == CliName(c.idx, 0) IN
    IF dst \in c.existing /\ ~c.overwrite_existing
    THEN CliName(c.idx, CliFreeCounter(c.existing, c.idx, 1))
    ELSE dst

\* cli_main from the head of the loop body to the call of process_file.
CliResolve ==
    /\ cli.pc = "loop"
    /\ cli' = [cli EXCEPT !.dst = CliDestination(cli), !.pc = "process"]
    /\ UNCHANGED <<guiVars, run>>

\* process_file returns; the row of the report is appended and the loop goes
\* on to the next input.  A run that exited 0 has written dst.
CliProcess ==
    /\ cli.pc = "process"
    /\ \E ok \in BOOLEAN :
          cli' = [cli EXCEPT
                    !.rows = Append(@, [status |-> IF ok THEN "COMPLETED" ELSE "FAILED",
                                        error |-> IF ok THEN None ELSE MsgEngine,
                                        dst |-> cli.dst]),
                    !.existing = IF ok THEN @ \cup {cli.dst} ELSE @,
                    !.idx = @ + 1,
                    !.pc = IF cli.idx < cli.n THEN "loop" ELSE "done"]
    /\ UNCHANGED <<guiVars, run>>

\* The desktop application is not in use.
GuiIdle ==
    /\ audio_files = <<>>
    /\ settings = DefaultSettings
    /\ stop_event = FALSE
    /\ nbatches = 0
    /\ dpc = [d \in Batches |-> "none"]
    /\ work_q = [d \in Batches |-> <<>>]
    /\ active = [d \in Batches |-> {}]
    /\ max_workers = [d \in Batches |-> 0]
    /\ launched = [d \in Batches |-> 0]
    /\ worker = [d \in Batches |-> [f \in Files |-> "none"]]
    /\ fs = {}
    /\ ui = DefaultSettings

\* A command-line run over 1..MaxCliFiles inputs, with and without
\* --overwrite, into an output directory that holds any of the names.
InitCli ==
    /\ GuiIdle
    /\ host = [cpu_count |-> 0, ffmpeg_runner_available |-> TRUE,
               ffmpeg_available |-> TRUE, outdir |-> "out"]
    /\ run = RunOff
    /\ \E n \in 1..MaxCliFiles, ow \in BOOLEAN,
          ex \in SUBSET {CliName(i, k) : i \in 1..MaxCliFiles, k \in 0..(MaxCounter - 1)} :
          cli = [pc |-> "loop", n |-> n, idx |-> 1, overwrite_existing |-> ow,
                 existing |-> ex, dst |-> None, rows |-> <<>>]

NextCli ==
    \/ CliResolve
    \/ CliProcess

SpecCli == InitCli /\ [][NextCli]_vars

\* --------------------------------------------------- the two-pass pipeline
\* One call of AudioProcessor.process_file and the recording of its result.
\* Loudness values are in tenths of a unit.

\* af.duration after the probe; 0 when the probe failed.
DurationChoices == {0, 1, 14, 15, 16, 100, 149, 150, 151, MaxDuration}

\* The keys measure_loudness reads from the blob.
Keys == {"input_i", "input_tp", "input_lra", "input_thresh", "target_offset"}

\* The value the engine measured for a key.
EngineValue(k) ==
    CASE k = "input_i" -> -201
      [] k = "input_tp" -> -32
      [] k = "input_lra" -> 50
      [] k = "input_thresh" -> -301
      [] k = "target_offset" -> 4

\* How a key appears in the blob: not at all, as a JSON number, as a string
\* holding the number (the engine's own format), or as something float()
\* rejects (a word, null, a nested record).
FieldKinds == {"absent", "num", "str", "bad"}

\* The captured stderr as a sequence of pieces: "t" is text without braces,
\* "B" the key/value pairs of a record.
StderrChoices ==
    { <<"t">>,
      <<"{", "B">>,
      <<"}", "t", "{">>,
      <<"{", "t", "}">>,
      <<"{", "}">>,
      <<"t", "{", "B", "}", "t">>,
      <<"{", "B", "}", "t", "{", "B", "}">> }

HasBody(stderr) == \E i \in DOMAIN stderr : stderr[i] = "B"

\* How the measurement pass can end: the process cannot be run, it exceeds
\* the timeout, or it ends (with any return code) and its stderr is captured.
MeasureOutcomes ==
    {[kind |-> "oserror"], [kind |-> "timeout"]}
    \cup {[kind |-> "output", stderr |-> e, fields |-> [k \in Keys |-> "absent"]] :
              e \in {x \in StderrChoices : ~HasBody(x)}}
    \cup {[kind |-> "output", stderr |-> e, fields |-> fl] :
              e \in {x \in StderrChoices : HasBody(x)}, fl \in [Keys -> FieldKinds]}

\* str.find / str.rfind: an index, or 0 where Python returns -1.
Find(q, c) ==
    IF \E i \in DOMAIN q : q[i] = c
    THEN CHOOSE i \in DOMAIN q : q[i] = c /\ \A j \in 1..(i - 1) : q[j] # c
    ELSE 0
RFind(q, c) ==
    IF \E i \in DOMAIN q : q[i] = c
    THEN CHOOSE i \in DOMAIN q : q[i] = c /\ \A j \in (i + 1)..Len(q) : q[j] # c
    ELSE 0

\* An Optional[Dict[str, float]]: Python's None, or a dictionary.
NoMeasurement == [some |-> FALSE]
Measurement(dict) == [some |-> TRUE, dict |-> dict]

\* json.loads of a slice: whether it parses, and the keys of the record.
JsonLoads(text, fields) ==
    IF text = <<"{", "}">> THEN [ok |-> TRUE, keys |-> {}]
    ELSE IF text = <<"{", "B", "}">>
         THEN [ok |-> TRUE, keys |-> {k \in Keys : fields[k] # "absent"}]
    ELSE [ok |-> FALSE, keys |-> {}]

\* A timeout of twice the duration, without limits.
MeasureTimeoutUnclamped(duration) == IF duration > 0 THEN 2 * duration ELSE 30

\* The timeout measure_loudness gives subprocess.run.

MeasureTimeout(duration) ==
    IF duration > 0 THEN Max(30, Min(300, 2 * duration)) ELSE 30

\* What measure_loudness returns for the way the pass ended.
MeasureLoudness(m) ==
    IF m.kind # "output" THEN NoMeasurement
    ELSE LET start == Find(m.stderr, "{")
             end == RFind(m.stderr, "}")
         IN  IF ~(start # 0 /\ end > start) THEN NoMeasurement
             ELSE LET blob == JsonLoads(SubSeq(m.stderr, start, end), m.fields) IN
                  IF ~blob.ok THEN NoMeasurement
                  ELSE IF \E k \in blob.keys : m.fields[k] = "bad" THEN NoMeasurement
                  ELSE Measurement([k \in Keys |->
                           IF k \in blob.keys THEN EngineValue(k) ELSE 0])

\* A filter that crosses two of the measured values.
BuildFiltersSwapped(s, measured) ==
    IF ~s.normalize_loudness THEN [mode |-> "none"]
    ELSE IF s.normalize_mode = "two-pass" /\ measured.some
         THEN [mode |-> "two-pass",
               measured_I |-> measured.dict["input_i"],
               measured_TP |-> measured.dict["input_lra"],
               measured_LRA |-> measured.dict["input_tp"],
               measured_thresh |-> measured.dict["input_thresh"],
               offset |-> measured.dict["target_offset"]]
         ELSE [mode |-> "one-pass"]

\* The loudnorm filter of build_filters.
BuildFilters(s, measured) ==
    IF ~s.normalize_loudness THEN [mode |-> "none"]
    ELSE IF s.normalize_mode = "two-pass" /\ measured.some
         THEN [mode |-> "two-pass",
               measured_I |-> measured.dict["input_i"],
               measured_TP |-> measured.dict["input_tp"],
               measured_LRA |-> measured.dict["input_lra"],
               measured_thresh |-> measured.dict["input_thresh"],
               offset |-> measured.dict["target_offset"]]
         ELSE [mode |-> "one-pass"]

\* A pipeline that never measures.
MeasureFirstNever(s) == FALSE

\* process_file's test for the measurement pass.

MeasureFirst(s) == s.normalize_loudness /\ s.normalize_mode = "two-pass"

\* af.warnings as the enhanced application's process_file sets it; the
\* AudioFile of the package has no such attribute.
Warnings(enhanced, s, measured) ==
    IF ~enhanced THEN None
    ELSE IF MeasureFirst(s) /\ ~measured.some THEN "Two-pass fallback"
    ELSE ""

\* process_file up to the measurement pass, which is started if due.
ProcessFileBegin ==
    /\ run.pc = "start"
    /\ IF MeasureFirst(run.s)
       THEN run' = [run EXCEPT !.pc = "measure",
                               !.timeout = MeasureTimeout(run.duration),
                               !.calls = Append(@, "measure")]
       ELSE run' = [run EXCEPT !.pc = "build",
                               !.warnings = Warnings(run.enhanced, run.s, NoMeasurement)]
    /\ UNCHANGED <<guiVars, cli>>

\* The measurement pass ends and measure_loudness returns.
MeasureReturn ==
    /\ run.pc = "measure"
    /\ \E m \in MeasureOutcomes :
          run' = [run EXCEPT !.pc = "build",
                             !.m = m,
                             !.measured_loudness = MeasureLoudness(m),
                             !.warnings = Warnings(run.enhanced, run.s, MeasureLoudness(m))]
    /\ UNCHANGED <<guiVars, cli>>

\* build_command, and the engine is spawned for the corrective run.
BuildAndSpawn ==
    /\ run.pc = "build"
    /\ run' = [run EXCEPT !.pc = "engine",
                          !.filter = BuildFilters(run.s, run.measured_loudness),
                          !.calls = Append(@, "corrective")]
    /\ UNCHANGED <<guiVars, cli>>

\* The engine exits; process_file returns and the caller records the result.
EngineExit ==
    /\ run.pc = "engine"
    /\ \E how \in {"exit0", "exit1"} :
          run' = [run EXCEPT !.pc = "done",
                             !.exit = how,
                             !.record = RunOneStatus(ProcessFileResult(how))]
    /\ UNCHANGED <<guiVars, cli>>

InitMeasure ==
    /\ GuiIdle
    /\ host \in [cpu_count : {0}, ffmpeg_runner_available : BOOLEAN,
                  ffmpeg_available : {TRUE}, outdir : {"out"}]
    /\ cli = CliOff
    /\ \E e \in BOOLEAN, d \in DurationChoices,
          ps \in [normalize_loudness : BOOLEAN, normalize_mode : {"one-pass", "two-pass"}] :
          run = [pc |-> "start", enhanced |-> e, s |-> ps, duration |-> d,
                 timeout |-> 0, calls |-> <<>>, m |-> [kind |-> "none"],
                 measured_loudness |-> NoMeasurement, warnings |-> None,
                 filter |-> [mode |-> "unbuilt"], exit |-> None,
                 record |-> AudioFile]

NextMeasure ==
    \/ ProcessFileBegin
    \/ MeasureReturn
    \/ BuildAndSpawn
    \/ EngineExit

SpecMeasure == InitMeasure /\ [][NextMeasure]_vars

\* ------------------------------------------------------- progress parsing
\* The read loop of a runner during one engine run: run_ffmpeg with
\* process_file's progress_wrapper, or _process_file_original.  Times are in
\* seconds; run.delivered is the sequence of values passed to
\* progress_callback("progress", ...).

\* af.duration: unknown (0), or a length that divides the percentages evenly.
ProgressDurations == {0, 2, 4}

\* The out_time_ms values the engine reports; negative for a stream whose
\* timestamps start below zero.
OutTimes == (0 - 1)..MaxOutTime

\* min(100.0, (out_ms / 1_000_000.0) / duration * 100.0)
Percent(out_time, duration) == Min(100, (out_time * 100) \div duration)

\* A line "out_time_ms=...": with a known duration the percentage is computed
\* and delivered.
ReadOutTime ==
    /\ run.pc = "read"
    /\ Len(run.lines) < MaxLines
    /\ \E v \in OutTimes :
          run' = [run EXCEPT
                    !.lines = Append(@, v),
                    !.delivered = IF run.duration > 0
                                  THEN Append(@, Percent(v, run.duration))
                                  ELSE @]
    /\ UNCHANGED <<guiVars, cli>>

\* The line "progress=end" of the last block: _process_file_original
\* delivers 100.0; progress_wrapper gets no percent from run_ffmpeg for this
\* line and delivers nothing.
ReadProgressEnd ==
    /\ run.pc = "read"
    /\ run' = [run EXCEPT
                 !.pc = "ended",
                 !.delivered = IF host.ffmpeg_runner_available
                               THEN @ ELSE Append(@, 100)]
    /\ UNCHANGED <<guiVars, cli>>

\* readline() returns "" and the engine has exited: the loop ends.
ReadEof ==
    /\ run.pc \in {"read", "ended"}
    /\ run' = [run EXCEPT !.pc = "eof"]
    /\ UNCHANGED <<guiVars, cli>>

InitProgress ==
    /\ GuiIdle
    /\ host \in [cpu_count : {0}, ffmpeg_runner_available : BOOLEAN,
                  ffmpeg_available : {TRUE}, outdir : {"out"}]
    /\ cli = CliOff
    /\ \E d \in ProgressDurations :
          run = [pc |-> "read", duration |-> d, lines |-> <<>>, delivered |-> <<>>]

NextProgress ==
    \/ ReadOutTime
    \/ ReadProgressEnd
    \/ ReadEof

SpecProgress == InitProgress /\ [][NextProgress]_vars

\* ------------------------------------------------------------ cancellation
\* The read loop of a runner that was handed a stop event, and the engine
\* process it spawned.  run.sent is the sequence of signals the runner has
\* sent; run.proc tells whether the engine process is still running.

\* os.name of the host.
OsNames == {"posix", "nt"}

\* The user presses Stop: _stop_event.set().
RequestStop ==
    /\ run.pc \in {"check", "read"}
    /\ ~run.stop
    /\ run' = [run EXCEPT !.stop = TRUE]
    /\ UNCHANGED <<guiVars, cli>>

\* The engine process ends on its own account: it has finished, or it has
\* acted on an interrupt it does not ignore.
EngineEnds ==
    /\ run.pc \in {"check", "read"}
    /\ run.proc = "running"
    /\ run' = [run EXCEPT !.proc = "exited"]
    /\ UNCHANGED <<guiVars, cli>>

\* "if stop_event and stop_event.is_set()" at the top of the loop.
CancelCheck ==
    /\ run.pc = "check"
    /\ run' = [run EXCEPT !.pc = IF run.stop THEN "interrupt" ELSE "read"]
    /\ UNCHANGED <<guiVars, cli>>

\* readline() returns a line of the running engine, or "" after its exit:
\* poll() is not None, the loop ends and the return code is collected.
CancelRead ==
    /\ run.pc = "read"
    /\ IF run.proc = "running"
       THEN /\ Len(run.lines) < MaxLines
            /\ run' = [run EXCEPT !.pc = "check", !.lines = Append(@, 0)]
       ELSE run' = [run EXCEPT !.pc = "returned", !.result = "exit"]
    /\ UNCHANGED <<guiVars, cli>>

\* The stop branch, first step.  On POSIX: proc.send_signal(SIGINT), and the
\* branch goes straight on to its return.  On Windows:
\* GenerateConsoleCtrlEvent, then proc.wait(timeout=2) and proc.kill() when
\* the wait times out.  An exception in either leads to the except branch.
\* An engine that ignores the interrupt is still running after the wait.
SendInterrupt ==
    /\ run.pc = "interrupt"
    /\ \E raises \in BOOLEAN :
          IF raises
          THEN run' = [run EXCEPT !.pc = "terminate"]
          ELSE IF run.os = "posix"
          THEN run' = [run EXCEPT !.pc = "returned", !.result = "cancel",
                                  !.sent = Append(@, "SIGINT")]
          ELSE \E ends_in_time \in BOOLEAN :
                  /\ ends_in_time => (run.proc = "exited" \/ ~run.ignores_interrupt)
                  /\ ~ends_in_time => run.proc = "running"
                  /\ run' = [run EXCEPT
                               !.pc = "returned", !.result = "cancel",
                               !.proc = "exited",
                               !.sent = IF ends_in_time
                                        THEN Append(@, "CTRL_BREAK")
                                        ELSE @ \o <<"CTRL_BREAK", "KILL">>]
    /\ UNCHANGED <<guiVars, cli>>

\* The except branch: proc.terminate(), proc.wait(timeout=1), and
\* proc.kill() when that raises or times out.
TerminateThenKill ==
    /\ run.pc = "terminate"
    /\ \E ends_in_time \in BOOLEAN :
          run' = [run EXCEPT
                    !.pc = "returned", !.result = "cancel",
                    !.proc = "exited",
                    !.sent = IF ends_in_time
                             THEN Append(@, "TERM")
                             ELSE @ \o <<"TERM", "KILL">>]
    /\ UNCHANGED <<guiVars, cli>>

InitCancel ==
    /\ GuiIdle
    /\ host \in [cpu_count : {0}, ffmpeg_runner_available : BOOLEAN,
                  ffmpeg_available : {TRUE}, outdir : {"out"}]
    /\ cli = CliOff
    /\ \E o \in OsNames, ig \in BOOLEAN :
          run = [pc |-> "check", os |-> o, ignores_interrupt |-> ig,
                 stop |-> FALSE, proc |-> "running", lines |-> <<>>,
                 sent |-> <<>>, result |-> None]

NextCancel ==
    \/ RequestStop
    \/ EngineEnds
    \/ CancelCheck
    \/ CancelRead
    \/ SendInterrupt
    \/ TerminateThenKill

SpecCancel == InitCancel /\ [][NextCancel]_vars

\* ------------------------------------------------------- the engine's pipes
\* One engine run with stdout and stderr piped to the runner.  The engine
\* writes the lines of run.script in order, "o" to stdout and "e" to stderr; a
\* write waits while its pipe is full.  run.out_buf and run.err_buf count the
\* lines held in the pipes.

RECURSIVE Scripts(_)
Scripts(n) ==
    IF n = 0 THEN {<<>>}
    ELSE LET shorter == Scripts(n - 1) IN
         shorter \cup {Append(q, c) : q \in {x \in shorter : Len(x) = n - 1},
                                      c \in {"o", "e"}}

\* The engine's next write goes through: its pipe has room.
EngineWrite ==
    /\ run.engine = "running"
    /\ run.script # <<>>
    /\ IF Head(run.script) = "o"
       THEN /\ run.out_buf < PipeCapacity
            /\ run' = [run EXCEPT !.script = Tail(@), !.out_buf = @ + 1]
       ELSE /\ run.err_buf < PipeCapacity
            /\ run' = [run EXCEPT !.script = Tail(@), !.err_buf = @ + 1]
    /\ UNCHANGED <<guiVars, cli>>

\* The engine has written everything and exits, which closes its ends of
\* the pipes.
EngineCloses ==
    /\ run.engine = "running"
    /\ run.script = <<>>
    /\ run' = [run EXCEPT !.engine = "exited"]
    /\ UNCHANGED <<guiVars, cli>>

\* proc.stdout.readline() in the loop of the runner: returns a line when the
\* pipe holds one, "" at end of file (the loop ends), and waits otherwise.
ReadStdout ==
    /\ run.pc = "read"
    /\ IF run.out_buf > 0
       THEN run' = [run EXCEPT !.out_buf = @ - 1, !.got = @ + 1]
       ELSE /\ run.engine = "exited"
            /\ run' = [run EXCEPT !.pc = "after"]
    /\ UNCHANGED <<guiVars, cli>>

\* read_stderr, the thread run_ffmpeg starts before its loop:
\* "for line in proc.stderr".  _process_file_original has no such thread.
ReadStderrThread ==
    /\ host.ffmpeg_runner_available
    /\ run.err_buf > 0
    /\ run' = [run EXCEPT !.err_buf = @ - 1]
    /\ UNCHANGED <<guiVars, cli>>

\* After the loop: _process_file_original reads stderr to its end and waits
\* for the process; run_ffmpeg waits for the process and joins its thread.
AfterLoop ==
    /\ run.pc = "after"
    /\ run' = [run EXCEPT !.pc = "returned",
                          !.err_buf = IF host.ffmpeg_runner_available THEN @ ELSE 0]
    /\ UNCHANGED <<guiVars, cli>>

InitPipes ==
    /\ GuiIdle
    /\ host \in [cpu_count : {0}, ffmpeg_runner_available : BOOLEAN,
                  ffmpeg_available : {TRUE}, outdir : {"out"}]
    /\ cli = CliOff
    /\ \E sc \in Scripts(MaxWrites) :
          run = [pc |-> "read", engine |-> "running", script |-> sc,
                 out_buf |-> 0, err_buf |-> 0, got |-> 0]

NextPipes ==
    \/ EngineWrite
    \/ EngineCloses
    \/ ReadStdout
    \/ ReadStderrThread
    \/ AfterLoop

SpecPipes == InitPipes /\ [][NextPipes]_vars

\* -------------------------------------------------------- failure reporting
\* One engine run that ends, and the message process_file returns for it.  A
\* text is a sequence of tokens: a word, a space "sp" or a newline "nl".

Tokens == {"err", "Cancelled", "sp", "nl"}

RECURSIVE Texts(_)
Texts(n) ==
    IF n = 0 THEN {<<>>}
    ELSE LET shorter == Texts(n - 1) IN
         shorter \cup {Append(t, c) : t \in {x \in shorter : Len(x) = n - 1},
                                      c \in Tokens}

IsSpace(c) == c \in {"sp", "nl"}

\* str.strip()
RECURSIVE LStrip(_)
LStrip(t) == IF t # <<>> /\ IsSpace(Head(t)) THEN LStrip(Tail(t)) ELSE t
RECURSIVE RStrip(_)
RStrip(t) ==
    IF t # <<>> /\ IsSpace(t[Len(t)]) THEN RStrip(SubSeq(t, 1, Len(t) - 1)) ELSE t
Strip(t) == RStrip(LStrip(t))

\* str.splitlines()
RECURSIVE SplitLines(_)
SplitLines(t) ==
    IF t = <<>> THEN <<>>
    ELSE LET i == Find(t, "nl") IN
         IF i = 0 THEN <<t>>
         ELSE <<SubSeq(t, 1, i - 1)>> \o SplitLines(SubSeq(t, i + 1, Len(t)))

\* f"ffmpeg exited with {rc}" / f"FFmpeg exited with code {ret}"
MsgExited == <<"exited">>
\* The error message None of a run that succeeded.
NoMessage == <<>>

\* What process_file returns for a nonzero return code when run_ffmpeg ran
\* the engine: "last" is the third element of run_ffmpeg's result, the whole
\* captured stderr.
ImprovedFailure(text) ==
    [ok |-> FALSE, err |-> IF text # <<>> THEN text ELSE MsgExited]

\* What _process_file_original returns for a nonzero return code.
OriginalFailure(text) ==
    LET err == Strip(text)
        stderr_lines == IF err # <<>> THEN SplitLines(err) ELSE <<>>
        last == Strip(IF stderr_lines # <<>>
                      THEN stderr_lines[Len(stderr_lines)] ELSE <<>>)
    IN  [ok |-> FALSE, err |-> IF last # <<>> THEN last ELSE MsgExited]

\* The status _run_one records for a run that did not succeed.
FailureStatus(err) == IF err = <<"Cancelled">> THEN SKIPPED ELSE FAILED

\* The engine exits and process_file returns.
EngineReturns ==
    /\ run.pc = "engine"
    /\ \E rc \in {0, 1} :
          run' = [run EXCEPT
                    !.pc = "returned",
                    !.rc = rc,
                    !.result = IF rc = 0 THEN [ok |-> TRUE, err |-> NoMessage]
                               ELSE IF host.ffmpeg_runner_available
                               THEN ImprovedFailure(run.text)
                               ELSE OriginalFailure(run.text)]
    /\ UNCHANGED <<guiVars, cli>>

\* _run_one records the result in the AudioFile.
RecordResult ==
    /\ run.pc = "returned"
    /\ run' = [run EXCEPT
                 !.pc = "done",
                 !.record = IF run.result.ok
                            THEN [status |-> COMPLETED, error_message |-> NoMessage]
                            ELSE [status |-> FailureStatus(run.result.err),
                                  error_message |-> run.result.err]]
    /\ UNCHANGED <<guiVars, cli>>

InitFailure ==
    /\ GuiIdle
    /\ host \in [cpu_count : {0}, ffmpeg_runner_available : BOOLEAN,
                  ffmpeg_available : {TRUE}, outdir : {"out"}]
    /\ cli = CliOff
    /\ \E t \in Texts(MaxText) :
          run = [pc |-> "engine", text |-> t, rc |-> 0,
                 result |-> [ok |-> TRUE, err |-> NoMessage],
                 record |-> [status |-> PROCESSING, error_message |-> NoMessage]]

NextFailure ==
    \/ EngineReturns
    \/ RecordResult

SpecFailure == InitFailure /\ [][NextFailure]_vars

\* ------------------------------------------------- exceptions in a job
\* One batch in which any step of a job's pipeline may raise: resolving the
\* output path and the guards (_output_path_for, exists, resolve, mkdir), the
\* command build after the measurement, and the engine run.

\* str(e) of an exception raised in the pipeline.
MsgException == "exception text"

\* A worker thread without the handlers: the exception ends the thread and
\* the job keeps the status it had.
RunOneRaisesUncaught(d, f) ==
    /\ worker[d][f] \in {"guards", "measure", "check", "read"}
    /\ worker' = [worker EXCEPT ![d][f] = "done"]
    /\ UNCHANGED <<audio_files, settings, stop_event, nbatches, dpc, work_q,
                   active, max_workers, launched, fs, ui, host, cli, run>>

\* An exception is raised in the job of file f.  Inside process_file it is
\* caught there and returned as (False, str(e)), which _run_one records;
\* before the call it is caught by "except Exception" in _run_one.  Either
\* way the job is recorded and the worker thread ends.
RunOneRaises(d, f) ==
    /\ worker[d][f] \in {"guards", "measure", "check", "read"}
    /\ Finish(d, f, [status |-> FAILED, error_message |-> MsgException])
    /\ UNCHANGED <<settings, stop_event, nbatches, dpc, work_q, active,
                   max_workers, launched, fs, ui, host, cli, run>>

\* The engine is installed and stop is not requested.
InitCrash ==
    /\ Init
    /\ host.ffmpeg_available
    /\ host.cpu_count = 0

NextCrash ==
    \/ EnqueueFile(MaxFiles)
    \/ StartProcessing(1)
    \/ Threads
    \/ \E d \in Batches, f \in Files : RunOneRaises(d, f)

SpecCrash == InitCrash /\ [][NextCrash]_vars

\* A step of dispatcher thread d, and a step of the worker thread of file f
\* that does not depend on the engine.
DispatcherStep(d) ==
    \/ DispatcherBegin(d)
    \/ DispatcherLaunch(d)
    \/ \E f \in Files : DispatcherReap(d, f)
    \/ DispatcherStartJob(d)
    \/ DispatcherFinish(d)

WorkerStep(d, f) ==
    \/ RunOneGuards(d, f)
    \/ RunOneMeasure(d, f)
    \/ RunnerCheck(d, f)

\* Every started thread keeps running (the threads are daemon threads of a
\* process that stays up), and every engine run comes to its end: a runner
\* that keeps reading eventually reads the end of file.
Fairness ==
    /\ \A d \in Batches : WF_vars(DispatcherStep(d))
    /\ \A d \in Batches, f \in Files :
           WF_vars(WorkerStep(d, f)) /\ SF_vars(RunnerEof(d, f))

\* The workers spinbox holds a value within its range; the output directory
\* is the sources' own (every job is ended by a guard) or another one.
InitLive ==
    /\ InitCrash
    /\ ui.parallelism <= MaxParallelism
    /\ host.outdir \in {"a/.", "out"}

\* The batch of SpecCrash, in which stop is never requested, with threads
\* that keep running and engine runs that end.
SpecLive == InitLive /\ [][NextCrash]_vars /\ Fairness

\* The batch of Spec, in which stop may be requested at any time, with
\* threads that keep running and engine runs that end.
SpecStop == InitLive /\ [][Next]_vars /\ Fairness

\* ------------------------------------------------------- the filter chain
\* One call of AudioProcessor.build_filters.  Seconds and loudness values are
\* in tenths of a unit.

\* target_i / target_tp / target_lra, fade_in_sec and fade_out_sec of the
\* settings (a negative fade is a value the panel does not stop), and
\* af.duration (0 when unknown).
TargetChoices ==
    {[target_i |-> -160, target_tp |-> -15, target_lra |-> 110],
     [target_i |-> -180, target_tp |-> -20, target_lra |-> 70]}
FadeInChoices == {-10, 0, 20}
FadeOutChoices == {-10, 0, 30, 150}
FilterDurations == {0, 100}

\* A chain that puts the fades before the normalization.
FilterListFadesFirst(s, duration, measured) ==
    (IF s.fade_in_sec > 0
     THEN <<[name |-> "afade", t |-> "in", st |-> 0, d |-> s.fade_in_sec]>>
     ELSE <<>>)
    \o (IF s.fade_out_sec > 0 /\ duration > 0
        THEN <<[name |-> "afade", t |-> "out",
                st |-> Max(0, duration - s.fade_out_sec), d |-> s.fade_out_sec]>>
        ELSE <<>>)
    \o (IF s.normalize_loudness
        THEN <<[name |-> "loudnorm", I |-> s.targets.target_i,
                TP |-> s.targets.target_tp, LRA |-> s.targets.target_lra,
                pass |-> BuildFilters(s, measured)]>>
        ELSE <<>>)

\* The filters of build_filters, in the order of its appends.
FilterList(s, duration, measured) ==
    (IF s.normalize_loudness
     THEN <<[name |-> "loudnorm", I |-> s.targets.target_i,
             TP |-> s.targets.target_tp, LRA |-> s.targets.target_lra,
             pass |-> BuildFilters(s, measured)]>>
     ELSE <<>>)
    \o (IF s.fade_in_sec > 0
        THEN <<[name |-> "afade", t |-> "in", st |-> 0, d |-> s.fade_in_sec]>>
        ELSE <<>>)
    \o (IF s.fade_out_sec > 0 /\ duration > 0
        THEN <<[name |-> "afade", t |-> "out",
                st |-> Max(0, duration - s.fade_out_sec), d |-> s.fade_out_sec]>>
        ELSE <<>>)

\* What build_filters returns: ["-af", chain], or [] without filters.
FilterArgs(s, duration, measured) ==
    LET filters == FilterList(s, duration, measured) IN
    IF filters # <<>> THEN [af |-> TRUE, chain |-> filters]
    ELSE [af |-> FALSE, chain |-> <<>>]

\* build_command calls build_filters.
BuildFiltersCall ==
    /\ run.pc = "start"
    /\ run' = [run EXCEPT !.pc = "built",
                          !.args = FilterArgs(run.s, run.duration, run.measured)]
    /\ UNCHANGED <<guiVars, cli>>

InitFilters ==
    /\ GuiIdle
    /\ host = [cpu_count |-> 0, ffmpeg_runner_available |-> TRUE,
               ffmpeg_available |-> TRUE, outdir |-> "out"]
    /\ cli = CliOff
    /\ \E nl \in BOOLEAN, nm \in {"one-pass", "two-pass"}, tg \in TargetChoices,
          fi \in FadeInChoices, fo \in FadeOutChoices, d \in FilterDurations,
          me \in {NoMeasurement, Measurement([k \in Keys |-> EngineValue(k)])} :
          run = [pc |-> "start",
                 s |-> [normalize_loudness |-> nl, normalize_mode |-> nm,
                        targets |-> tg, fade_in_sec |-> fi, fade_out_sec |-> fo],
                 duration |-> d, measured |-> me,
                 args |-> [af |-> FALSE, chain |-> <<>>]]

NextFilters ==
    \/ BuildFiltersCall

SpecFilters == InitFilters /\ [][NextFilters]_vars

\* ------------------------------------------------------ encoder arguments
\* One call of AudioProcessor.build_encoding_args.  Vorbis quality values are
\* in tenths.

\* s.output_format; "xyz" is a format the function does not know.
FormatChoices == {"wav", "WAV", "flac", "aac", "m4a", "mp3", "ogg", "opus", "xyz"}

\* s.quality: any string.  "sup2" stands for the one-character string
\* holding SUPERSCRIPT TWO (U+00B2).
QualityChoices ==
    {"V0", "v2", "V4", "V9", "128k", "320k", "junk", "5", "12", "5.5", "sup2", ""}

\* s.bit_depth
BitDepthChoices == {8, 16, 24, 32}

\* str.lower() of the format, str.upper() of the quality.
Lower(fmt) == IF fmt = "WAV" THEN "wav" ELSE fmt
Upper(q) ==
    CASE q = "v2" -> "V2"
      [] q = "128k" -> "128K"
      [] q = "320k" -> "320K"
      [] q = "junk" -> "JUNK"
      [] OTHER -> q

\* str.endswith("k")
EndsWithK(q) == q \in {"128k", "320k", "junk"}

\* str.isdigit(): every character is a digit, superscript digits included,
\* and there is at least one.
IsDigit(q) == q \in {"5", "12", "sup2"}

\* float(): the value, or ValueError; it does not read superscript digits.
Float(q) ==
    CASE q = "5" -> [ok |-> TRUE, value |-> 50]
      [] q = "12" -> [ok |-> TRUE, value |-> 120]
      [] q = "5.5" -> [ok |-> TRUE, value |-> 55]
      [] OTHER -> [ok |-> FALSE, value |-> 0]

\* The arguments as a record: codec after "-c:a", the quality option and
\* its value; None where the list holds no such element.
EncArgs(codec, opt, value) == [ok |-> TRUE, codec |-> codec, opt |-> opt, value |-> value]
\* The call raised.
EncRaised == [ok |-> FALSE, codec |-> None, opt |-> None, value |-> None]

BuildEncodingArgs(s, libfdk_aac_available) ==
    LET fmt == Lower(s.output_format) IN
    CASE fmt = "wav" ->
            EncArgs(CASE s.bit_depth = 16 -> "pcm_s16le"
                      [] s.bit_depth = 24 -> "pcm_s24le"
                      [] s.bit_depth = 32 -> "pcm_s32le"
                      [] OTHER -> "pcm_s16le", None, None)
      [] fmt = "flac" -> EncArgs("flac", None, None)
      [] fmt \in {"aac", "m4a"} ->
            EncArgs(IF libfdk_aac_available THEN "libfdk_aac" ELSE "aac", "-b:a",
                    IF EndsWithK(s.quality) THEN s.quality ELSE "256k")
      [] fmt = "mp3" ->
            EncArgs("libmp3lame", "-qscale:a",
                    CASE Upper(s.quality) = "V0" -> "0"
                      [] Upper(s.quality) = "V1" -> "1"
                      [] Upper(s.quality) = "V2" -> "2"
                      [] Upper(s.quality) = "V3" -> "3"
                      [] Upper(s.quality) = "V4" -> "4"
                      [] OTHER -> "2")
      [] fmt = "ogg" ->
            IF IsDigit(s.quality)
            THEN IF Float(s.quality).ok
                 THEN EncArgs("libvorbis", "-qscale:a",
                              Max(0, Min(100, Float(s.quality).value)))
                 ELSE EncRaised
            ELSE EncArgs("libvorbis", "-qscale:a", Max(0, Min(100, 60)))
      [] fmt = "opus" -> EncArgs("libopus", "-b:a", "128k")
      [] OTHER -> EncArgs(None, None, None)

\* build_command calls build_encoding_args.
BuildEncodingArgsCall ==
    /\ run.pc = "start"
    /\ run' = [run EXCEPT !.pc = "built",
                          !.enc = BuildEncodingArgs(run.s, run.libfdk_aac_available)]
    /\ UNCHANGED <<guiVars, cli>>

InitEncoding ==
    /\ GuiIdle
    /\ host = [cpu_count |-> 0, ffmpeg_runner_available |-> TRUE,
               ffmpeg_available |-> TRUE, outdir |-> "out"]
    /\ cli = CliOff
    /\ \E f \in FormatChoices, q \in QualityChoices, b \in BitDepthChoices,
          lib \in BOOLEAN :
          run = [pc |-> "start",
                 s |-> [output_format |-> f, quality |-> q, bit_depth |-> b],
                 libfdk_aac_available |-> lib,
                 enc |-> EncArgs(None, None, None)]

NextEncoding ==
    \/ BuildEncodingArgsCall

SpecEncoding == InitEncoding /\ [][NextEncoding]_vars

\* ------------------------------------------------------ settings validation
\* The settings of a run on their way to job processing: the command line
\* validates them (cli_main, _validate_cli_settings, validate_settings); the
\* desktop application takes them from the panel (_sync_settings_from_ui).
\* Loudness values are in tenths of a unit.

\* The values a user can supply, field by field; the defaults of
\* ProcessingSettings are among them.
RawSettingsChoices ==
    [normalize_loudness : BOOLEAN,
     target_i : {-370, -160, -70},
     target_tp : {-15, -5},
     target_lra : {-1, 110},
     output_format : {"wav", "mp3", "aac", "ogg", "flac"},
     quality : {"V2", "V9", "128k", "junk", "5", "12"},
     bit_depth : {8, 16},
     sample_rate : {12345, 48000, 200000},
     channels : {0, 2, 9},
     output_directory : {"none", "file"},
     filename_template : {"{stem}.{ext}", "{bogus}"}]

\* ProcessingSettings(): the defaults of the fields above.
DefaultRawSettings ==
    [normalize_loudness |-> FALSE, target_i |-> -160, target_tp |-> -15,
     target_lra |-> 110, output_format |-> "wav", quality |-> "V2",
     bit_depth |-> 16, sample_rate |-> 48000, channels |-> 2,
     output_directory |-> "none", filename_template |-> "{stem}.{ext}"]

AllowedSampleRates == {22050, 32000, 44100, 48000, 88200, 96000}

\* int(): the value of a string of decimal digits, or ValueError.
IntOf(q) ==
    CASE q = "5" -> [ok |-> TRUE, value |-> 5]
      [] q = "12" -> [ok |-> TRUE, value |-> 12]
      [] q = "128" -> [ok |-> TRUE, value |-> 128]
      [] OTHER -> [ok |-> FALSE, value |-> 0]

\* s.quality[:-1]
DropLast(q) ==
    CASE q = "128k" -> "128"
      [] q = "junk" -> "jun"
      [] q = "V2" -> "V"
      [] q = "V9" -> "V"
      [] q = "12" -> "1"
      [] OTHER -> ""

\* A validator that checks the loudness targets only.
ValidateSettingsTargetsOnly(s) ==
    IF s.normalize_loudness /\ ~(-360 <= s.target_i /\ s.target_i <= -80) THEN "target_i"
    ELSE IF s.normalize_loudness /\ s.target_tp > -10 THEN "target_tp"
    ELSE IF s.normalize_loudness /\ s.target_lra < 0 THEN "target_lra"
    ELSE "ok"

\* validate_settings: "ok", or the check that raised ValueError.
ValidateSettings(s) ==
    LET fmt == Lower(s.output_format) IN
    IF s.normalize_loudness /\ ~(-360 <= s.target_i /\ s.target_i <= -80) THEN "target_i"
    ELSE IF s.normalize_loudness /\ s.target_tp > -10 THEN "target_tp"
    ELSE IF s.normalize_loudness /\ s.target_lra < 0 THEN "target_lra"
    ELSE IF fmt = "wav" /\ s.bit_depth \notin {16, 24, 32} THEN "bit_depth"
    ELSE IF fmt = "mp3" /\ Upper(s.quality) \notin {"V0", "V1", "V2", "V3", "V4"}
         THEN "mp3 quality"
    ELSE IF fmt \in {"aac", "m4a"} /\ ~EndsWithK(s.quality) THEN "aac quality"
    ELSE IF fmt \in {"aac", "m4a"}
            /\ LET br == IntOf(DropLast(s.quality)) IN
               ~br.ok \/ ~(64 <= br.value /\ br.value <= 320)
         THEN "aac bitrate"
    ELSE IF fmt = "ogg"
            /\ LET q == IntOf(s.quality) IN ~q.ok \/ ~(0 <= q.value /\ q.value <= 10)
         THEN "ogg quality"
    ELSE IF s.sample_rate \notin AllowedSampleRates THEN "sample_rate"
    ELSE IF ~(1 <= s.channels /\ s.channels <= 8) THEN "channels"
    ELSE IF s.output_directory = "file" THEN "output_directory"
    ELSE IF s.filename_template # "{stem}.{ext}" THEN "filename_template"
    ELSE "ok"

\* _sync_settings_from_ui: the fields it adjusts; the rest is taken as it is.
SyncFields(v) ==
    [v EXCEPT !.bit_depth = IF @ \notin {16, 24, 32} THEN 16 ELSE @,
              !.sample_rate = IF @ <= 0 \/ @ > 192000 THEN 48000 ELSE @,
              !.channels = IF @ < 1 \/ @ > 8 THEN 2 ELSE @]

\* cli_main from the override of the settings to the validation: either the
\* run ends with exit code 2, or it goes on to the loop over the files.
CliValidate ==
    /\ run.pc = "start"
    /\ run.path = "cli"
    /\ LET v == ValidateSettings(run.raw) IN
       run' = [run EXCEPT !.pc = IF v = "ok" THEN "processing" ELSE "rejected",
                          !.verdict = v,
                          !.s = run.raw]
    /\ UNCHANGED <<guiVars, cli>>

\* _start_processing: the settings are taken from the panel and the batch is
\* dispatched; no validator is called.
GuiSync ==
    /\ run.pc = "start"
    /\ run.path = "gui"
    /\ run' = [run EXCEPT !.pc = "processing", !.s = SyncFields(run.raw)]
    /\ UNCHANGED <<guiVars, cli>>

InitValidate ==
    /\ GuiIdle
    /\ host = [cpu_count |-> 0, ffmpeg_runner_available |-> TRUE,
               ffmpeg_available |-> TRUE, outdir |-> "out"]
    /\ cli = CliOff
    /\ \E p \in {"cli", "gui"}, v \in RawSettingsChoices :
          run = [pc |-> "start", path |-> p, raw |-> v, verdict |-> "none",
                 s |-> DefaultRawSettings]

NextValidate ==
    \/ CliValidate
    \/ GuiSync

SpecValidate == InitValidate /\ [][NextValidate]_vars

\* ------------------------------------------- measurements across jobs
\* Several calls of process_file on one AudioProcessor: two files, worked on
\* by two workers at once, each file in up to MaxRuns runs one after another.
\* `measured` is a local variable of each call; af.measured_loudness is an
\* attribute of the file's AudioFile.

MaxRuns == 2
Jobs == 1..2

\* What the measurement pass number p reads from file j.
EngineMeasures(j, p) == Measurement([k \in Keys |-> 10 * p + j])

JobSettingsChoices ==
    [normalize_loudness : BOOLEAN, normalize_mode : {"one-pass", "two-pass"}]

JobIdle ==
    [pc |-> "idle", runs |-> 0,
     s |-> [normalize_loudness |-> FALSE, normalize_mode |-> "one-pass"],
     measured |-> NoMeasurement, own |-> 0]

\* A run starts: process_file is called for file j with the settings of the
\* run; `measured` is not bound yet.
JobStart(j) ==
    /\ run.job[j].pc \in {"idle", "done"}
    /\ run.job[j].runs < MaxRuns
    /\ \E ps \in JobSettingsChoices :
          run' = [run EXCEPT !.job[j] =
                     [pc |-> IF MeasureFirst(ps) THEN "measure" ELSE "build",
                      runs |-> run.job[j].runs + 1, s |-> ps,
                      measured |-> NoMeasurement, own |-> 0]]
    /\ UNCHANGED <<guiVars, cli>>

\* A call that keeps the measurement the file already has.
JobMeasureReturnCached(j) ==
    /\ run.job[j].pc = "measure"
    /\ \E good \in BOOLEAN :
          LET p == run.npass + 1
              fresh == IF good THEN EngineMeasures(j, p) ELSE NoMeasurement
              m == IF run.af[j].some THEN run.af[j] ELSE fresh
          IN  run' = [run EXCEPT !.npass = p,
                                 !.job[j].pc = "build",
                                 !.job[j].measured = m,
                                 !.job[j].own = IF good THEN p ELSE 0,
                                 !.af[j] = m]
    /\ UNCHANGED <<guiVars, cli>>

\* measure_loudness returns to process_file: the values of this pass, or
\* None; the result is bound to `measured` and stored on the AudioFile.
JobMeasureReturn(j) ==
    /\ run.job[j].pc = "measure"
    /\ \E good \in BOOLEAN :
          LET p == run.npass + 1
              m == IF good THEN EngineMeasures(j, p) ELSE NoMeasurement
          IN  run' = [run EXCEPT !.npass = p,
                                 !.job[j].pc = "build",
                                 !.job[j].measured = m,
                                 !.job[j].own = IF good THEN p ELSE 0,
                                 !.af[j] = m]
    /\ UNCHANGED <<guiVars, cli>>

\* build_command with the local `measured`; the corrective run is spawned.
JobBuild(j) ==
    /\ run.job[j].pc = "build"
    /\ run' = [run EXCEPT !.job[j].pc = "engine",
                          !.commands = Append(@,
                              [file |-> j, own |-> run.job[j].own,
                               filter |-> BuildFilters(run.job[j].s,
                                                       run.job[j].measured)])]
    /\ UNCHANGED <<guiVars, cli>>

\* The corrective run ends and process_file returns.
JobEnd(j) ==
    /\ run.job[j].pc = "engine"
    /\ run' = [run EXCEPT !.job[j].pc = "done"]
    /\ UNCHANGED <<guiVars, cli>>

InitJobs ==
    /\ GuiIdle
    /\ host = [cpu_count |-> 0, ffmpeg_runner_available |-> TRUE,
               ffmpeg_available |-> TRUE, outdir |-> "out"]
    /\ cli = CliOff
    /\ run = [job |-> [j \in Jobs |-> JobIdle],
              af |-> [j \in Jobs |-> NoMeasurement],
              npass |-> 0, commands |-> <<>>]

NextJobs ==
    \E j \in Jobs :
        \/ JobStart(j)
        \/ JobMeasureReturn(j)
        \/ JobBuild(j)
        \/ JobEnd(j)

SpecJobs == InitJobs /\ [][NextJobs]_vars

\* ------------------------------------------------------ remaining time
\* The read loop of a runner and the "eta" values that reach
\* progress_callback: run_ffmpeg with the progress_wrapper of the package
\* (which takes percent alone) or of the single-file application (which
\* passes eta_sec on), or _process_file_original.  Times are in seconds.

EtaDurations == {0, 4}
EtaOutTimes == {0, 2, 6}
SpeedChoices == {"N/A", "0x", "1x", "2x"}

\* float(speed_str.rstrip("x")): the value, or ValueError.
ParseSpeed(text) ==
    CASE text = "0x" -> [ok |-> TRUE, value |-> 0]
      [] text = "1x" -> [ok |-> TRUE, value |-> 1]
      [] text = "2x" -> [ok |-> TRUE, value |-> 2]
      [] OTHER -> [ok |-> FALSE, value |-> 0]

\* (duration - out_ms / 1_000_000.0) / speed
Eta(duration, out_time, speed) == (duration - out_time) \div speed

\* What is passed to progress_callback("eta", ...), with the line it came
\* from and the last speed the engine had reported by then (0: none).
EtaDelivery(value, out_time, seen) ==
    [eta |-> value, out_time |-> out_time, seen |-> seen]

\* A line "speed=...".  run_ffmpeg passes it to the wrapper as speed=...,
\* which delivers nothing; _process_file_original keeps the speed and
\* delivers an eta for the last out_time_ms when all values are positive.
EtaSpeedLine ==
    /\ run.pc = "read"
    /\ run.nlines < MaxLines
    /\ \E text \in SpeedChoices :
          LET sp == ParseSpeed(text)
              seen == IF sp.ok /\ sp.value > 0 THEN sp.value ELSE run.seen
          IN  run' = [run EXCEPT
                        !.nlines = @ + 1,
                        !.seen = seen,
                        !.speed = IF ~host.ffmpeg_runner_available /\ sp.ok
                                  THEN sp.value ELSE @,
                        !.delivered =
                            IF /\ ~host.ffmpeg_runner_available
                               /\ sp.ok /\ sp.value > 0
                               /\ run.duration > 0 /\ run.out_ms > 0
                            THEN Append(@, EtaDelivery(
                                     Eta(run.duration, run.out_ms, sp.value),
                                     run.out_ms, seen))
                            ELSE @]
    /\ UNCHANGED <<guiVars, cli>>

\* A line "out_time_ms=...".  run_ffmpeg parses the line into a dictionary
\* of its own, so progress_data.get("speed", "1.0") is "1.0"; the eta it
\* computes reaches the callback through the single-file application's
\* wrapper only.  _process_file_original delivers the percentage alone.
EtaOutTimeLine ==
    /\ run.pc = "read"
    /\ run.nlines < MaxLines
    /\ \E v \in EtaOutTimes :
          run' = [run EXCEPT
                    !.nlines = @ + 1,
                    !.out_ms = IF host.ffmpeg_runner_available THEN @ ELSE v,
                    !.delivered =
                        IF /\ host.ffmpeg_runner_available
                           /\ run.monolith
                           /\ run.duration > 0
                        THEN Append(@, EtaDelivery(Eta(run.duration, v, 1),
                                                   v, run.seen))
                        ELSE @]
    /\ UNCHANGED <<guiVars, cli>>

\* The engine exits and the loop ends.
EtaEof ==
    /\ run.pc = "read"
    /\ run' = [run EXCEPT !.pc = "eof"]
    /\ UNCHANGED <<guiVars, cli>>

InitEta ==
    /\ GuiIdle
    /\ host \in [cpu_count : {0}, ffmpeg_runner_available : BOOLEAN,
                  ffmpeg_available : {TRUE}, outdir : {"out"}]
    /\ cli = CliOff
    /\ \E d \in EtaDurations, mono \in BOOLEAN :
          run = [pc |-> "read", monolith |-> mono, duration |-> d, nlines |-> 0,
                 out_ms |-> 0, speed |-> 1, seen |-> 0, delivered |-> <<>>]

NextEta ==
    \/ EtaSpeedLine
    \/ EtaOutTimeLine
    \/ EtaEof

SpecEta == InitEta /\ [][NextEta]_vars

\* ------------------------------------------------ one destination, two jobs
\* Two worker threads in _run_one for two queued files that
\* _output_path_for maps to one name (same stem, sources in two other
\* directories, so the self-overwrite guard passes).  A name of the output
\* directory is the counter of its suffix, 0 for the name without suffix.
\* The engine's own test under -n is taken as one step with the creation of
\* the file.

MaxSuffix == 2

\* "while outp.exists(): ... counter += 1", counter starting at 1.
RECURSIVE FreeSuffix(_, _)
FreeSuffix(existing, counter) ==
    IF counter \in existing /\ counter < MaxSuffix
    THEN FreeSuffix(existing, counter + 1)
    ELSE counter

\* Lines 395-399: the destination exists and overwrite is disabled: Skipped.
CollideFirstTest(j) ==
    /\ run.w[j].pc = "guards"
    /\ run' = [run EXCEPT !.w[j].pc =
                  IF 0 \in run.existing /\ ~run.overwrite_existing
                  THEN "skipped" ELSE "rename"]
    /\ UNCHANGED <<guiVars, cli>>

\* Lines 406-416: the second test of the same condition, which renames; the
\* path is settled and process_file is called with it.
CollideSecondTest(j) ==
    /\ run.w[j].pc = "rename"
    /\ run' = [run EXCEPT
                 !.w[j].pc = "engine",
                 !.w[j].outp = IF 0 \in run.existing /\ ~run.overwrite_existing
                               THEN FreeSuffix(run.existing, 1) ELSE 0]
    /\ UNCHANGED <<guiVars, cli>>

\* The engine opens its output: with -n it exits when the file exists, with
\* -y or a free name it creates the file and writes.
CollideEngineOpens(j) ==
    /\ run.w[j].pc = "engine"
    /\ IF run.w[j].outp \in run.existing /\ ~run.overwrite_existing
       THEN run' = [run EXCEPT !.w[j].pc = "failed"]
       ELSE run' = [run EXCEPT !.w[j].pc = "writing",
                               !.existing = @ \cup {run.w[j].outp}]
    /\ UNCHANGED <<guiVars, cli>>

\* The engine exits; the result is recorded.
CollideEngineExits(j) ==
    /\ run.w[j].pc = "writing"
    /\ run' = [run EXCEPT !.w[j].pc = "completed"]
    /\ UNCHANGED <<guiVars, cli>>

InitCollide ==
    /\ GuiIdle
    /\ host = [cpu_count |-> 0, ffmpeg_runner_available |-> TRUE,
               ffmpeg_available |-> TRUE, outdir |-> "out"]
    /\ cli = CliOff
    /\ \E ow \in BOOLEAN, ex \in SUBSET (0..(MaxSuffix - 1)) :
          run = [overwrite_existing |-> ow, existing |-> ex,
                 w |-> [j \in Jobs |-> [pc |-> "guards", outp |-> 0]]]

NextCollide ==
    \E j \in Jobs :
        \/ CollideFirstTest(j)
        \/ CollideSecondTest(j)
        \/ CollideEngineOpens(j)
        \/ CollideEngineExits(j)

SpecCollide == InitCollide /\ [][NextCollide]_vars

\* ------------------------------------------- command line, the whole loop
\* cli_main of the package and of the single-file application from the
\* first iteration to the return code.  With `inplace` the output directory
\* is the directory of the inputs and the output format is theirs, so that
\* input i is the file CliName(i, 0) of the output directory.

\* --meta artist=...: none, a template over the placeholders, a template
\* with a placeholder that the loop does not supply.
MetaArtistChoices == {"", "{stem}", "{album}"}

\* str.format(stem=..., ext=..., index=...) raises KeyError.
FormatRaises(template) == template = "{album}"

\* The self-overwrite test of the single-file application's loop
\* (os.path.samefile); the package's loop has none.
CliSameFile(c, dst) == c.monolith /\ c.inplace /\ dst = CliName(c.idx, 0)

\* The loop body up to the call of process_file: placeholders, template,
\* renaming, and in the single-file application the self-overwrite test.
\* An exception of the placeholders leaves cli_main; the interpreter exits
\* with code 1.
CliLoopHead ==
    /\ cli.pc = "loop"
    /\ IF FormatRaises(cli.artist)
       THEN cli' = [cli EXCEPT !.pc = "raised", !.code = 1]
       ELSE LET dst == CliDestination(cli) IN
            IF CliSameFile(cli, dst)
            THEN cli' = [cli EXCEPT
                           !.rows = Append(@, [status |-> "ERROR",
                                               error |-> MsgSelfOverwrite,
                                               dst |-> dst, src |-> cli.idx]),
                           !.fail_count = @ + 1,
                           !.idx = @ + 1,
                           !.pc = IF cli.idx < cli.n THEN "loop" ELSE "done"]
            ELSE cli' = [cli EXCEPT !.dst = dst, !.pc = "process"]
    /\ UNCHANGED <<guiVars, run>>

\* process_file returns: the counters and the report row; the next input.
CliLoopProcess ==
    /\ cli.pc = "process"
    /\ \E ok \in BOOLEAN :
          cli' = [cli EXCEPT
                    !.rows = Append(@, [status |-> IF ok THEN "COMPLETED" ELSE "FAILED",
                                        error |-> IF ok THEN None ELSE MsgEngine,
                                        dst |-> cli.dst, src |-> cli.idx]),
                    !.engine = Append(@, [src |-> cli.idx, dst |-> cli.dst]),
                    !.ok_count = IF ok THEN @ + 1 ELSE @,
                    !.fail_count = IF ok THEN @ ELSE @ + 1,
                    !.existing = IF ok THEN @ \cup {cli.dst} ELSE @,
                    !.idx = @ + 1,
                    !.pc = IF cli.idx < cli.n THEN "loop" ELSE "done"]
    /\ UNCHANGED <<guiVars, run>>

\* "return 0 if fail_count == 0 else 1"
CliLoopReturn ==
    /\ cli.pc = "done"
    /\ cli' = [cli EXCEPT !.pc = "exit",
                          !.code = IF cli.fail_count = 0 THEN 0 ELSE 1]
    /\ UNCHANGED <<guiVars, run>>

InitCliLoop ==
    /\ GuiIdle
    /\ host = [cpu_count |-> 0, ffmpeg_runner_available |-> TRUE,
               ffmpeg_available |-> TRUE, outdir |-> "out"]
    /\ run = RunOff
    /\ \E n \in 1..MaxCliFiles, ow \in BOOLEAN, mono \in BOOLEAN, inp \in BOOLEAN,
          art \in MetaArtistChoices,
          ex \in SUBSET {CliName(i, k) : i \in 1..MaxCliFiles, k \in 0..(MaxCounter - 1)} :
          /\ inp => \A i \in 1..n : CliName(i, 0) \in ex
          /\ cli = [pc |-> "loop", n |-> n, idx |-> 1, overwrite_existing |-> ow,
                    existing |-> ex, dst |-> None, rows |-> <<>>,
                    monolith |-> mono, inplace |-> inp, artist |-> art,
                    engine |-> <<>>, ok_count |-> 0, fail_count |-> 0, code |-> 0]

NextCliLoop ==
    \/ CliLoopHead
    \/ CliLoopProcess
    \/ CliLoopReturn

SpecCliLoop == InitCliLoop /\ [][NextCliLoop]_vars

\* ------------------------------------------------ progress lines of any key
\* One engine run read by run_ffmpeg with the progress_wrapper of the
\* package or of the single-file application, or by
\* _process_file_original, up to the record of the job.

\* The keys of the lines of a progress block.
KeyChoices == {"out_time_ms", "speed", "bitrate", "total_size", "progress"}

\* str(e) of the TypeError of a call with an unexpected keyword argument.
MsgKeyword == "unexpected keyword argument"

\* Whether the wrapper given to run_ffmpeg can be called with the keyword:
\* the package's is (percent=None, **kwargs), the single-file application's
\* is (out_time_ms=None, speed=None, percent=None, eta_sec=None).
WrapperAccepts(monolith, key) ==
    ~monolith \/ key \in {"out_time_ms", "speed", "percent", "eta_sec"}

\* readline() returns a line "key=value".  run_ffmpeg calls
\* on_progress(**{key: value}); a TypeError of that call leaves run_ffmpeg
\* with the engine running and is returned by process_file as a failure.
\* _process_file_original looks at the start of the line and passes over
\* the keys it does not know.
KeysReadLine ==
    /\ run.pc = "read"
    /\ run.nlines < MaxLines
    /\ \E key \in KeyChoices :
          IF host.ffmpeg_runner_available /\ ~WrapperAccepts(run.monolith, key)
          THEN run' = [run EXCEPT !.nlines = @ + 1,
                                  !.keys = @ \cup {key},
                                  !.raised = TRUE,
                                  !.pc = "returned",
                                  !.result = [ok |-> FALSE, err |-> MsgKeyword]]
          ELSE run' = [run EXCEPT !.nlines = @ + 1, !.keys = @ \cup {key}]
    /\ UNCHANGED <<guiVars, cli>>

\* The engine exits with return code 0 or 1.
KeysEngineExits ==
    /\ run.engine = "running"
    /\ \E rc \in {0, 1} : run' = [run EXCEPT !.engine = "exited", !.rc = rc]
    /\ UNCHANGED <<guiVars, cli>>

\* readline() returns "" and poll() is not None: the loop ends, the return
\* code is read and process_file returns.
KeysEof ==
    /\ run.pc = "read"
    /\ run.engine = "exited"
    /\ run' = [run EXCEPT
                 !.pc = "returned",
                 !.result = IF run.rc = 0 THEN [ok |-> TRUE, err |-> None]
                            ELSE [ok |-> FALSE, err |-> MsgEngine]]
    /\ UNCHANGED <<guiVars, cli>>

\* _run_one records the result of process_file.
KeysRecord ==
    /\ run.pc = "returned"
    /\ run' = [run EXCEPT !.pc = "done", !.record = RunOneStatus(run.result)]
    /\ UNCHANGED <<guiVars, cli>>

InitKeys ==
    /\ GuiIdle
    /\ host \in [cpu_count : {0}, ffmpeg_runner_available : BOOLEAN,
                  ffmpeg_available : {TRUE}, outdir : {"out"}]
    /\ cli = CliOff
    /\ \E mono \in BOOLEAN :
          run = [pc |-> "read", monolith |-> mono, engine |-> "running",
                 rc |-> 0, nlines |-> 0, keys |-> {}, raised |-> FALSE,
                 result |-> [ok |-> TRUE, err |-> None],
                 record |-> [status |-> PROCESSING, error_message |-> None]]

NextKeys ==
    \/ KeysReadLine
    \/ KeysEngineExits
    \/ KeysEof
    \/ KeysRecord

SpecKeys == InitKeys /\ [][NextKeys]_vars

\* ================================================================ claims
Status(f) == audio_files[f].status
Queue == DOMAIN audio_files
Started(d) == dpc[d] \notin {"none", "init"}
AliveWorkers(d) == {f \in Files : Alive(d, f)}
InProcessing == {f \in Queue : Status(f) = PROCESSING}
Range(q) == {q[i] : i \in DOMAIN q}
\* The files a dispatcher took into its queue.
BatchFiles(d) == Range(work_q[d]) \cup {f \in Files : worker[d][f] # "none"}
EngineInvoked(d, f) == worker[d][f] \in {"measure", "check", "read"}
CancelledRecord == [status |-> SKIPPED, error_message |-> MsgCancelled]

\* C1: in one batch run the number of worker threads alive, and of jobs in
\* Processing, never exceeds the max_workers the dispatcher computed when it
\* began.
C1_WorkersWithinCap ==
    \A d \in Batches :
        Started(d) =>
            /\ Cardinality(AliveWorkers(d)) <= max_workers[d]
            /\ Cardinality(InProcessing) <= max_workers[d]

\* C1 witness: the cap of 2 is reached while a file still waits in the queue.
C1_Witness ==
    \E d \in Batches :
        /\ max_workers[d] = 2
        /\ Cardinality(AliveWorkers(d)) = 2
        /\ work_q[d] # <<>>

\* C2 as stated: in two-pass mode the cap is the configured parallelism
\* halved (minimum 1) and no more jobs than that are in Processing, whatever
\* the host's CPU count; otherwise the cap is the configured parallelism.
C2_CapIsHalvedParallelism ==
    \A d \in Batches :
        Started(d) =>
            LET cap == IF settings.normalize_loudness /\ settings.normalize_mode = "two-pass"
                       THEN Max(1, settings.parallelism \div 2)
                       ELSE settings.parallelism
            IN  max_workers[d] = cap /\ Cardinality(InProcessing) <= cap

\* C2 amended: in two-pass mode the cap is the smaller of the configured
\* parallelism and half the host's CPU count (4 CPUs when the count is
\* unknown, rounded down, minimum 1); otherwise it is the configured
\* parallelism.  No more jobs than the cap are in Processing.
C2_CapIsMinOfParallelismAndHalfCpus ==
    \A d \in Batches :
        Started(d) =>
            LET cpus == IF host.cpu_count = 0 THEN 4 ELSE host.cpu_count
                half == IF cpus \div 2 < 1 THEN 1 ELSE cpus \div 2
                cap == IF settings.normalize_loudness /\ settings.normalize_mode = "two-pass"
                       THEN (IF settings.parallelism < half THEN settings.parallelism ELSE half)
                       ELSE settings.parallelism
            IN  max_workers[d] = cap /\ Cardinality(InProcessing) <= cap

\* C2 witness: two-pass mode on a 2-CPU host with parallelism 2: the cap is 1,
\* one job is in Processing and another waits.
C2_Witness ==
    \E d \in Batches :
        /\ Started(d)
        /\ TwoPass(settings) /\ settings.parallelism = 2 /\ host.cpu_count = 2
        /\ max_workers[d] = 1
        /\ Cardinality(InProcessing) = 1
        /\ work_q[d] # <<>>

\* The scenario of C3: a batch of 3 files, parallelism 2, no normalization.
C3_Scenario ==
    /\ Started(1)
    /\ BatchFiles(1) = {1, 2, 3}
    /\ settings.parallelism = 2
    /\ ~settings.normalize_loudness

\* C3 as stated: in the scenario 2 jobs have reached Processing before any
\* job is terminal, and the 3rd job leaves Queued only after one of the
\* first two is terminal.
C3_TwoProcessingBeforeAnyTerminal ==
    C3_Scenario =>
        /\ (\E f \in {1, 2, 3} : Status(f) \in Terminal) =>
               Cardinality({f \in {1, 2, 3} : Status(f) # QUEUED}) >= 2
        /\ Status(3) # QUEUED => (Status(1) \in Terminal \/ Status(2) \in Terminal)

\* C3 amended: in the scenario at most 2 jobs are in Processing at once, at
\* most 2 jobs have left Queued while no job is terminal, and the 3rd job
\* leaves Queued only after one of the first two is terminal.
C3_ThirdWaitsForTerminal ==
    C3_Scenario =>
        /\ Cardinality(InProcessing) <= 2
        /\ (\A f \in {1, 2, 3} : Status(f) \notin Terminal) =>
               Cardinality({f \in {1, 2, 3} : Status(f) # QUEUED}) <= 2
        /\ Status(3) # QUEUED => (Status(1) \in Terminal \/ Status(2) \in Terminal)

\* C3 witness: the 3rd job is in Processing beside one of the first two,
\* the other being terminal.
C3_Witness ==
    /\ C3_Scenario
    /\ Status(3) = PROCESSING
    /\ Status(1) = PROCESSING
    /\ Status(2) \in Terminal

\* C4: every change of a job's status is Queued -> Processing or
\* Processing -> Completed, Skipped or Failed; a terminal status never
\* changes.
C4_StatusOnlyMovesForward ==
    [][\A f \in Queue :
           \/ audio_files'[f].status = Status(f)
           \/ Status(f) = QUEUED /\ audio_files'[f].status = PROCESSING
           \/ Status(f) = PROCESSING /\ audio_files'[f].status \in Terminal]_vars

\* C5: no file has two worker threads alive at once.
C5_OneWorkerPerFile ==
    \A f \in Files : Cardinality({d \in Batches : Alive(d, f)}) <= 1

\* C6: a job that is in its measurement or corrective pass while stop is
\* requested ends Skipped with the message "Cancelled", and promptly: a runner
\* that starts a loop iteration while stop is requested does not go on to
\* read the engine's output but ends the run there.
C6_StoppedJobEndsCancelled ==
    [][\A d \in Batches, f \in Files :
           /\ (stop_event /\ EngineInvoked(d, f) /\ worker'[d][f] = "done")
                  => audio_files'[f] = CancelledRecord
           /\ (stop_event /\ worker[d][f] = "check")
                  => worker'[d][f] \in {"check", "done"}]_vars

C8_StopStaysSet ==
    [][(stop_event /\ \E d \in Batches :
                          \/ dpc[d] \notin {"none", "done"}
                          \/ \E f \in Files : Alive(d, f))
           => stop_event']_vars

\* C9: while stop is requested no job moves from Queued to Processing.
C9_NoDequeueAfterStop ==
    [][stop_event =>
           \A f \in Queue :
               ~(Status(f) = QUEUED /\ audio_files'[f].status = PROCESSING)]_vars

\* C10: the engine is never invoked (measurement or corrective pass) on a job
\* whose output path denotes the same file as its source.
C10_EngineNeverRunsOnSource ==
    \A d \in Batches, f \in Files :
        EngineInvoked(d, f) => Inode(OutputPathFor(f)) # Inode(SrcPath(f))

\* C11: a job whose destination exists while overwrite is disabled does not
\* reach the engine run: it ends Skipped with a message containing "exists".
\* (With overwrite enabled the job goes on to the engine run.)
C11_ExistingDestinationIsSkipped ==
    [][(cli.pc = "loop" /\ CliName(cli.idx, 0) \in cli.existing)
           => IF cli.overwrite_existing
              THEN cli'.pc = "process"
              ELSE /\ cli'.pc # "process"
                   /\ Len(cli'.rows) = Len(cli.rows) + 1
                   /\ cli'.rows[Len(cli'.rows)].status = "SKIPPED"]_vars

\* C12: a job that a pre-flight guard ends (Skipped because its destination
\* exists, Failed by the self-overwrite guard) goes from Queued straight to
\* that status: it is not in Processing when the guard records its verdict.
C12_GuardedJobSkipsProcessing ==
    [][\A f \in Queue :
           (/\ audio_files'[f] # audio_files[f]
            /\ audio_files'[f].error_message \in {MsgExists, MsgSelfOverwrite})
               => Status(f) = QUEUED]_vars

\* A run of the pipeline with two-pass normalization.
TwoPassRun ==
    /\ run.pc # "off"
    /\ run.s.normalize_loudness
    /\ run.s.normalize_mode = "two-pass"

WellFormedBlob(m) ==
    /\ m.kind = "output"
    /\ LET start == Find(m.stderr, "{")
           end == RFind(m.stderr, "}")
       IN  /\ start # 0
           /\ end > start
           /\ SubSeq(m.stderr, start, end) = <<"{", "B", "}">>
    /\ \A k \in Keys : m.fields[k] \in {"num", "str"}

\* The measurement pass has ended without such a blob: process error,
\* timeout, missing or malformed blob.
MeasurementFailed ==
    /\ TwoPassRun
    /\ run.pc \in {"build", "engine", "done"}
    /\ ~WellFormedBlob(run.m)

\* C14: after a failed measurement pass the corrective command carries the
\* one-pass loudnorm filter, without measured values, and the job is recorded
\* by the engine's exit alone: Completed when the corrective run exits 0.
C14_FailedMeasurementFallsBackToOnePass ==
    (MeasurementFailed /\ run.pc \in {"engine", "done"}) =>
        /\ run.filter = [mode |-> "one-pass"]
        /\ run.pc = "done" => (run.record.status = COMPLETED <=> run.exit = "exit0")

\* C15: a job that is Completed carries the warning "Two-pass fallback" in
\* its state exactly when it ran in two-pass mode and its measurement pass
\* failed; the warning leaves the status Completed.
C15_FallbackWarningOnCompletedJob ==
    (run.pc = "done" /\ run.record.status = COMPLETED) =>
        (run.warnings = "Two-pass fallback" <=> MeasurementFailed)

\* C16: measure_loudness returns values only for a well-formed blob: the
\* text between the first "{" and the last "}" is a flat record holding all
\* five numeric fields.  Anything else, a record lacking one of the fields
\* included, yields None.
C16_ValuesOnlyFromCompleteBlob ==
    (TwoPassRun /\ run.pc \in {"build", "engine", "done"}) =>
        (run.measured_loudness.some => WellFormedBlob(run.m))

\* C17: the five values of a successful measurement are the values of the
\* blob, key by key, and the loudnorm filter of the corrective run carries
\* them unchanged: input_i as measured_I, input_tp as measured_TP, input_lra
\* as measured_LRA, input_thresh as measured_thresh, target_offset as offset.
C17_BlobValuesReachTheFilter ==
    (TwoPassRun /\ run.pc \in {"build", "engine", "done"} /\ WellFormedBlob(run.m)) =>
        /\ run.measured_loudness.some
        /\ \A k \in Keys : run.measured_loudness.dict[k] = EngineValue(k)
        /\ run.pc \in {"engine", "done"} =>
               run.filter = [mode |-> "two-pass",
                             measured_I |-> EngineValue("input_i"),
                             measured_TP |-> EngineValue("input_tp"),
                             measured_LRA |-> EngineValue("input_lra"),
                             measured_thresh |-> EngineValue("input_thresh"),
                             offset |-> EngineValue("target_offset")]

\* C17 witness: a corrective run has been spawned with the values of a blob
\* that the engine printed in its own format (numbers held in strings).
C17_Witness ==
    /\ TwoPassRun
    /\ run.pc = "engine"
    /\ WellFormedBlob(run.m)
    /\ \A k \in Keys : run.m.fields[k] = "str"
    /\ run.filter.mode = "two-pass"
    /\ run.filter.measured_LRA = 50

\* C18: the timeout of the measurement pass is twice the duration kept within
\* 30..300 seconds when the duration is known, and 30 seconds when it is
\* unknown (0).
C18_MeasureTimeoutIsClamped ==
    (TwoPassRun /\ run.pc # "start") =>
        /\ run.timeout >= 30
        /\ run.timeout <= 300
        /\ run.timeout = IF run.duration = 0 THEN 30
                         ELSE IF 2 * run.duration < 30 THEN 30
                         ELSE IF 2 * run.duration > 300 THEN 300
                         ELSE 2 * run.duration

\* C18 witness: measurement passes have been started with a timeout at the
\* upper limit for a long input; the limit is what cut it down.
C18_Witness ==
    /\ TwoPassRun
    /\ run.pc = "measure"
    /\ run.duration > 150
    /\ run.timeout = 300

\* A read loop of a job whose duration is known.
KnownDurationRun ==
    /\ run.pc \in {"read", "ended", "eof"}
    /\ run.duration > 0

\* C19: every percent value delivered to the progress callback of a job with
\* known duration lies in 0..100, whatever out_time_ms values the engine
\* reports, negative ones and ones beyond the duration included.
C19_PercentWithinRange ==
    KnownDurationRun =>
        \A i \in DOMAIN run.delivered :
            run.delivered[i] >= 0 /\ run.delivered[i] <= 100

\* C20: the percent values delivered to the progress callback during one run
\* of a job with known duration never decrease.
C20_PercentNeverDecreases ==
    KnownDurationRun =>
        \A i, j \in DOMAIN run.delivered :
            i < j => run.delivered[i] <= run.delivered[j]

\* C21: when the read loop takes the line "progress=end", the value 100 is
\* delivered to the progress callback, whatever was delivered before, by the
\* improved runner and by the fallback runner alike.
C21_ProgressEndDelivers100 ==
    [][(run.pc = "read" /\ run'.pc = "ended")
           => /\ Len(run'.delivered) = Len(run.delivered) + 1
              /\ run'.delivered[Len(run'.delivered)] = 100]_vars

\* C22: when a runner returns from its stop branch the engine process has
\* ended: the runner has waited for it, escalating from the interrupt to a
\* terminate and to a kill, also when the engine ignores the interrupt.
C22_EngineDeadWhenCancelReturns ==
    (run.pc = "returned" /\ run.result = "cancel") => run.proc = "exited"

\* The engine waits in a write to a full pipe.
EngineBlocked ==
    /\ run.engine = "running"
    /\ run.script # <<>>
    /\ IF Head(run.script) = "o"
       THEN run.out_buf = PipeCapacity
       ELSE run.err_buf = PipeCapacity

\* The runner waits in readline() on an empty stdout pipe, and no thread is
\* there to take lines from the stderr pipe.
RunnerBlocked ==
    /\ run.pc = "read"
    /\ run.out_buf = 0
    /\ run.engine = "running"
    /\ ~(host.ffmpeg_runner_available /\ run.err_buf > 0)

\* C23: the engine and the runner never wait for each other: the engine is
\* never held in a write to a full stderr pipe while the runner waits for a
\* stdout line and nothing reads stderr.  This holds for the improved runner
\* and for the fallback runner, for an engine that writes more to stderr than
\* the pipe holds before it has finished with stdout.
C23_StderrNeverBlocksStdout ==
    ~(EngineBlocked /\ RunnerBlocked)

\* The lines of a text that hold more than white space.
NonEmptyLines(t) == SelectSeq(SplitLines(t), LAMBDA l : Strip(l) # <<>>)

\* C24: a job whose engine run exits nonzero with a stderr that holds at
\* least one non-empty line is recorded Failed, and its error message is the
\* last non-empty line of that stderr (white space around it aside), not the
\* whole text.
C24_MessageIsLastStderrLine ==
    (run.pc = "done" /\ run.rc # 0 /\ NonEmptyLines(run.text) # <<>>) =>
        LET lines == NonEmptyLines(run.text) IN
        /\ run.record.status = FAILED
        /\ Strip(run.record.error_message) = Strip(lines[Len(lines)])

\* C25: an exception raised anywhere in a job's pipeline is caught for that
\* job: the job is recorded Failed with the exception's text, and the
\* dispatcher goes on: it declares the batch finished only when its queue is
\* empty and every job it took is terminal.
C25_CrashedJobFailsAndBatchGoesOn ==
    /\ \A f \in Queue :
           audio_files[f].error_message = MsgException => Status(f) = FAILED
    /\ \A d \in Batches :
           dpc[d] = "done" =>
               /\ work_q[d] = <<>>
               /\ \A f \in BatchFiles(d) : Status(f) \in Terminal

\* C25 witness: with one worker at a time, the first job has failed on an
\* exception and the second job, dequeued after it, has completed.
C25_Witness ==
    /\ max_workers[1] = 1
    /\ Len(audio_files) >= 2
    /\ audio_files[1] = [status |-> FAILED, error_message |-> MsgException]
    /\ Status(2) = COMPLETED
    /\ worker[1][2] = "done"

\* C26: when stop is never requested and every engine run ends, a dispatcher
\* that has been started eventually declares its batch finished, and at that
\* point every file it took is Completed, Skipped or Failed, whichever of the
\* jobs fail.
C26_BatchEventuallyCompletes ==
    \A d \in Batches :
        (dpc[d] = "init") ~>
            (dpc[d] = "done" /\ \A f \in BatchFiles(d) : Status(f) \in Terminal)

\* C26 witness: a batch of three files is finished with one job failed by
\* the engine, one failed on an exception and one completed.
C26_Witness ==
    /\ dpc[1] = "done"
    /\ BatchFiles(1) = {1, 2, 3}
    /\ \E f \in Files : audio_files[f] = [status |-> FAILED, error_message |-> MsgEngine]
    /\ \E f \in Files : audio_files[f] = [status |-> FAILED, error_message |-> MsgException]
    /\ \E f \in Files : Status(f) = COMPLETED

\* C27: on a host without the engine no press of Start gets a batch going:
\* no dispatcher thread and no worker thread is started and no job's record
\* (status, error message) is changed.
C27_NoEngineNoDispatch ==
    [][~host.ffmpeg_available =>
           /\ nbatches' = nbatches
           /\ dpc' = dpc
           /\ worker' = worker
           /\ \A f \in Queue : audio_files'[f] = audio_files[f]]_vars

\* C27 witness: Start has been pressed on a host without the engine with
\* files in the queue (the settings were taken from the panel), and no
\* dispatcher exists.
C27_Witness ==
    /\ ~host.ffmpeg_available
    /\ Len(audio_files) = MaxFiles
    /\ settings # DefaultSettings
    /\ nbatches = 0
    /\ \A d \in Batches : dpc[d] = "none"
    /\ \A f \in Queue : audio_files[f] = AudioFile

\* C28: in one batch the jobs leave the queue in the order of the list: when
\* a dispatcher puts a job into Processing (starts its worker), it has
\* already done so for every job before it in the list.  The order in which
\* jobs end is free.
C28_DequeuedInSubmissionOrder ==
    [][\A d \in Batches, i, j \in Files :
           (i < j /\ worker[d][j] = "none" /\ worker'[d][j] # "none")
               => /\ audio_files'[j].status = PROCESSING
                  /\ worker'[d][i] # "none"]_vars

\* C28 witness: the second job has ended while the first, dequeued before
\* it, is still in Processing, and the third still waits in the queue.
C28_Witness ==
    /\ Len(audio_files) = 3
    /\ Status(1) = PROCESSING
    /\ Status(2) = COMPLETED
    /\ Status(3) = QUEUED
    /\ work_q[1] = <<3>>

\* The position of a filter in the emitted chain, 0 when it is not there.
ChainIndex(kind) ==
    LET c == run.args.chain
        hit(i) == IF kind = "loudnorm" THEN c[i].name = "loudnorm"
                  ELSE c[i].name = "afade" /\ c[i].t = kind
        at == {i \in DOMAIN c : hit(i)}
    IN  IF at = {} THEN 0 ELSE CHOOSE i \in at : \A j \in at : i <= j

\* C29: the chain build_filters emits holds loudnorm exactly when
\* normalization is enabled, the fade-in exactly when fade_in_sec > 0 and the
\* fade-out exactly when fade_out_sec > 0 and the duration is known; each at
\* most once, in the order loudnorm, fade-in, fade-out; "-af" is emitted
\* exactly when the chain is not empty; loudnorm carries the configured I, TP
\* and LRA, and in a one-pass run nothing measured.
C29_FilterChainOrder ==
    run.pc = "built" =>
        LET c == run.args.chain
            ln == ChainIndex("loudnorm")
            fi == ChainIndex("in")
            fo == ChainIndex("out")
            present == {i \in {ln, fi, fo} : i > 0}
        IN  /\ (ln > 0) <=> run.s.normalize_loudness
            /\ (fi > 0) <=> run.s.fade_in_sec > 0
            /\ (fo > 0) <=> (run.s.fade_out_sec > 0 /\ run.duration > 0)
            /\ Len(c) = Cardinality(present)
            /\ (ln > 0 /\ fi > 0) => ln < fi
            /\ (ln > 0 /\ fo > 0) => ln < fo
            /\ (fi > 0 /\ fo > 0) => fi < fo
            /\ run.args.af <=> c # <<>>
            /\ ln > 0 =>
                   /\ c[ln].I = run.s.targets.target_i
                   /\ c[ln].TP = run.s.targets.target_tp
                   /\ c[ln].LRA = run.s.targets.target_lra
                   /\ (run.s.normalize_mode = "one-pass")
                          => c[ln].pass = [mode |-> "one-pass"]

\* C29 witness: a chain of all three filters has been emitted for a one-pass
\* run with the targets -18 LUFS, -2 dBTP and 7 LU.
C29_Witness ==
    /\ run.pc = "built"
    /\ run.s.normalize_mode = "one-pass"
    /\ Len(run.args.chain) = 3
    /\ run.args.chain[1].name = "loudnorm"
    /\ run.args.chain[1].I = -180
    /\ run.args.chain[2].t = "in"
    /\ run.args.chain[3].t = "out"

\* C30: build_encoding_args returns arguments for every quality and bit
\* depth, and for a known format they are: wav, "pcm_s<depth>le" for a depth
\* of 16, 24 or 32 and pcm_s16le for any other; mp3, the digit of V0..V4
\* (in either case) and 2 for any other quality; aac and m4a, the quality
\* itself when it is a bitrate ending in "k" and 256k for any other; ogg, the
\* number of a quality written in digits kept within 0..10 and 6.0 for any
\* other.
C30_UnknownQualityGetsDefault ==
    run.pc = "built" =>
        LET fmt == IF run.s.output_format = "WAV" THEN "wav" ELSE run.s.output_format
            q == run.s.quality
            e == run.enc
        IN  /\ e.ok
            /\ fmt = "wav" =>
                   e.codec = (IF run.s.bit_depth = 24 THEN "pcm_s24le"
                              ELSE IF run.s.bit_depth = 32 THEN "pcm_s32le"
                              ELSE "pcm_s16le")
            /\ fmt = "mp3" =>
                   e.value = (IF q = "V0" THEN "0"
                              ELSE IF q = "V4" THEN "4"
                              ELSE "2")
            /\ fmt \in {"aac", "m4a"} =>
                   e.value = (IF q \in {"128k", "320k", "junk"} THEN q ELSE "256k")
            /\ fmt = "ogg" =>
                   e.value = (IF q = "5" THEN 50
                              ELSE IF q = "12" THEN 100
                              ELSE 60)

\* A command-line run whose settings have been through validate_settings.
Validated == run.path = "cli" /\ run.pc \in {"processing", "rejected"}

\* C31: validate_settings accepts the default settings, and it raises
\* ValueError (the run is rejected) for settings that have normalization
\* enabled with a target loudness outside -36..-8, a true peak above -1.0 or
\* a loudness range below 0; a wav bit depth other than 16, 24, 32; a sample
\* rate outside the allowed set; a channel count outside 1..8; an mp3 quality
\* outside V0..V4; an aac quality that is not a bitrate string.
C31_ValidatorRejectsBadSettings ==
    Validated =>
        LET v == run.raw
            bad == \/ v.normalize_loudness /\ (v.target_i < -360 \/ v.target_i > -80)
                   \/ v.normalize_loudness /\ v.target_tp > -10
                   \/ v.normalize_loudness /\ v.target_lra < 0
                   \/ v.output_format = "wav" /\ v.bit_depth \notin {16, 24, 32}
                   \/ v.sample_rate \notin {22050, 32000, 44100, 48000, 88200, 96000}
                   \/ v.channels < 1 \/ v.channels > 8
                   \/ v.output_format = "mp3" /\ v.quality \notin {"V0", "V1", "V2", "V3", "V4"}
                   \/ v.output_format = "aac" /\ v.quality # "128k"
        IN  /\ bad => run.pc = "rejected"
            /\ v = DefaultRawSettings => run.pc = "processing"

\* C31 witness: the defaults have been accepted.
C31_Witness ==
    /\ Validated
    /\ run.raw = DefaultRawSettings
    /\ run.pc = "processing"
    /\ run.verdict = "ok"

\* C32: the settings that a run hands to job processing have a loudness
\* target within -36..-8, a true peak of at most -1.0, a loudness range of at
\* least 0, 1..8 channels and a sample rate of the allowed set, with
\* normalization enabled or not.
C32_ProcessedSettingsInRange ==
    run.pc = "processing" =>
        /\ -360 <= run.s.target_i /\ run.s.target_i <= -80
        /\ run.s.target_tp <= -10
        /\ run.s.target_lra >= 0
        /\ 1 <= run.s.channels /\ run.s.channels <= 8
        /\ run.s.sample_rate \in {22050, 32000, 44100, 48000, 88200, 96000}

\* The corrective commands spawned so far that carry measured values.
TwoPassCommands ==
    {i \in DOMAIN run.commands : run.commands[i].filter.mode = "two-pass"}

\* C33: the measured values in a job's corrective command are those of the
\* measurement pass that the same job made on the same file, and the values
\* of one measurement pass are in at most one corrective command: they are
\* not used for another file or in a later run.
C33_MeasurementIsTheJobsOwn ==
    /\ \A i \in TwoPassCommands :
          LET c == run.commands[i] IN
          /\ c.own # 0
          /\ c.filter.measured_I = 10 * c.own + c.file
          /\ c.filter.measured_TP = 10 * c.own + c.file
          /\ c.filter.measured_LRA = 10 * c.own + c.file
          /\ c.filter.measured_thresh = 10 * c.own + c.file
          /\ c.filter.offset = 10 * c.own + c.file
    /\ \A i, k \in TwoPassCommands :
          i # k => run.commands[i].filter.measured_I # run.commands[k].filter.measured_I

\* C33 witness: both files have been through two two-pass runs whose
\* measurement succeeded, the first runs of the two files overlapping or
\* following each other, and four commands carry measured values.
C33_Witness ==
    /\ Cardinality(TwoPassCommands) = 4
    /\ run.commands[1].file = 1
    /\ run.commands[1].own = 1
    /\ run.commands[2].file = 2
    /\ run.commands[2].own = 2
    /\ \A j \in Jobs : run.job[j].pc = "done"

\* The command-line job at hand has been redirected by the renaming: the
\* name the template gives exists and overwrite is disabled.
CliRedirected ==
    /\ cli.pc = "process"
    /\ CliName(cli.idx, 0) \in cli.existing
    /\ ~cli.overwrite_existing

\* C34: a job whose destination exists while overwrite is disabled, and that
\* the renaming redirects, goes on to the engine run with the output path
\* <stem>_NNN<ext>, NNN being the smallest counter from 001 whose path does
\* not exist: the path chosen does not exist when it is chosen.
C34_RenamedToSmallestFreeCounter ==
    CliRedirected =>
        /\ cli.dst.stem = cli.idx
        /\ cli.dst.counter >= 1
        /\ cli.dst \notin cli.existing
        /\ \A k \in 1..(cli.dst.counter - 1) : CliName(cli.idx, k) \in cli.existing

\* C34 witness: the second job of a run is redirected past an existing _001
\* name.
C34_Witness ==
    /\ CliRedirected
    /\ cli.idx = 2
    /\ CliName(2, 1) \in cli.existing
    /\ cli.dst = CliName(2, 2)

\* C35: every remaining-time value delivered to the callback is computed
\* from the last speed the engine reported: (duration - out_time) / speed
\* for a speed above 0, so that a speed line changes the values reported for
\* the out_time_ms lines after it.
C35_EtaUsesLatestSpeed ==
    \A i \in DOMAIN run.delivered :
        LET e == run.delivered[i] IN
        e.seen > 0 => e.eta = (run.duration - e.out_time) \div e.seen

\* C36: two jobs that are in Processing at one time do not write to one
\* output path: for two queued files with one destination, the test for an
\* existing file and the renaming keep the paths apart in every
\* interleaving of the workers.
C36_ConcurrentOutputsDistinct ==
    \A i, j \in Jobs :
        (i # j /\ run.w[i].pc = "writing" /\ run.w[j].pc = "writing")
            => run.w[i].outp # run.w[j].outp

\* C37: the command-line loop never calls the engine with an output path
\* that is the file of the source, whatever the overwrite setting, the
\* output directory and the template.
C37_CliNeverRunsOnSource ==
    cli.pc = "process" => ~(cli.inplace /\ cli.dst = CliName(cli.idx, 0))

\* C39: the command-line run handles every collected file exactly once, in
\* the order collected, going on after a failure: it is not left before the
\* last file; at the end succeeded + failed is the number of files, and the
\* exit code is 0 when no file failed and 1 otherwise.
C39_CliHandlesEveryFileOnce ==
    /\ cli.pc # "raised"
    /\ \A i \in DOMAIN cli.rows : cli.rows[i].src = i
    /\ cli.pc \in {"done", "exit"} =>
          /\ Len(cli.rows) = cli.n
          /\ cli.ok_count + cli.fail_count = cli.n
    /\ cli.pc = "exit" => cli.code = (IF cli.fail_count = 0 THEN 0 ELSE 1)

\* No dispatcher has taken file f from its queue.
NeverDequeued(f) == \A d \in Batches : worker[d][f] = "none"

\* C38: after stop is requested a running dispatcher comes to its end: when
\* the jobs in flight have ended it leaves its loop and declares the batch
\* finished, and every job that was not dequeued still has the status Queued
\* and no error message.
C38_DispatcherEndsAfterStop ==
    \A d \in Batches :
        (stop_event /\ dpc[d] \notin {"none", "done"}) ~>
            (/\ dpc[d] = "done"
             /\ active[d] = {}
             /\ \A f \in Queue : NeverDequeued(f) => audio_files[f] = AudioFile)

\* C38 witness: stop was requested during a batch of three files; the
\* dispatcher has finished with one job ended and two files left in its
\* queue, both Queued.
C38_Witness ==
    /\ stop_event
    /\ dpc[1] = "done"
    /\ Len(work_q[1]) = 2
    /\ \E f \in Queue : worker[1][f] = "done" /\ Status(f) \in Terminal
    /\ \A i \in DOMAIN work_q[1] :
          NeverDequeued(work_q[1][i]) /\ audio_files[work_q[1][i]] = AudioFile

\* C40: progress lines with a key that the pipeline does not use (bitrate,
\* total_size, progress) are passed over: no exception leaves the runner
\* because of them, the job's record is the one the engine's return code
\* gives, and the engine is not running once the job is recorded.
C40_UnusedKeysAreIgnored ==
    /\ ~run.raised
    /\ run.pc = "done" =>
          /\ run.engine = "exited"
          /\ run.record = (IF run.rc = 0
                           THEN [status |-> COMPLETED, error_message |-> None]
                           ELSE [status |-> FAILED, error_message |-> MsgEngine])

====
